---------------------------- MODULE Spec2Model ----------------------------
(***************************************************************************)
(* Model of the VXI-11 transport of testeq-rs: the XDR codec               *)
(* (protocol/vxi11/xdr.rs), the ONC/RPC client (protocol/vxi11/onc.rs)     *)
(* and the VXI-11 device link (protocol/vxi11/mod.rs, rpc.rs).             *)
(*                                                                         *)
(* Representation of 32-bit words.  The model checker's integers are the   *)
(* 32-bit two's complement integers, so a Rust u32 is held as its bit      *)
(* pattern read as an i32: a u32 below 2^31 is itself, a u32 v >= 2^31 is  *)
(* held as v - 2^32 (negative).  An `as` cast between u32 and i32 keeps    *)
(* the bit pattern, as in Rust.  Byte buffers (Vec<u8>, &[u8]) are         *)
(* sequences over 0..255.                                                  *)
(***************************************************************************)
EXTENDS Integers, Sequences, FiniteSets, TLC

VARIABLES
    \* --- XDR codec harness (xdr.rs): the last codec call and its result
    xdr_op, xdr_in, xdr_packed, xdr_out,
    \* --- ONC client (onc.rs, struct OncClient)
    stream,        \* "None" | "Some": self.stream
    last_xid,      \* self.last_xid
    onc_pc,        \* "idle" | "reading" (inside read_response) | "panicked"
    responses,     \* the local `responses` of read_response
    onc_result,    \* what the last call of request or connect returned
    \* --- the TCP stream of the ONC client and its peer
    inbound,       \* bytes the peer has sent and the client has not read
    peer_closed,   \* the peer has closed the stream: reads past inbound fail
    last_packet,   \* the bytes of the last successful write_all
    \* --- bookkeeping for the properties (not program state)
    req_xid,       \* last_xid when the current request was called
    sent_xids,     \* xid of every CALL written in full, in order
    discarded,     \* messages read and dropped, each with the xid awaited then
    n_calls,       \* calls of request that have started
    n_returned,    \* calls of request that have returned (Ok or Err)
    n_written,     \* calls of request that wrote their CALL and returned
    srv_sent,      \* records the peer has sent
    frag_whole,    \* message the peer sent in two fragments for this request
    \* --- VXI-11 transport (mod.rs, ScpiVxiProtocol / VxiClient / VxiClientLink)
    link,          \* "None" | "Some": ScpiVxiProtocol.link
    link_id,       \* VxiClientLink.link_id
    max_recv_size, \* VxiClientLink.max_recv_size
    link_pc,       \* "idle" | "writing" | "receiving" | "panicked"
    op_data,       \* write: the data argument
    op_index,      \* write: chunks written so far (the loop index)
    op_result,     \* recv: the local `result` buffer
    link_result,   \* what the last transport call returned
    \* --- bookkeeping for the properties (not program state)
    dev_calls,     \* the requests of the current write or recv, in order
    read_replies,  \* the error-free DeviceRead replies of the current recv
    n_ops,         \* transport calls (write, recv) started
    link_call,     \* the last call of the transport started and its timeout
    setup_log,     \* bookkeeping: what the last connect did, in order
    \* --- tasks sharing one Arc<Mutex<OncClient>> (mod.rs:117, onc.rs:21)
    client_lock,   \* owner of the Mutex<OncClient>, 0 when free
    stream_lock,   \* owner of the Mutex<TcpStream>, 0 when free
    task_pc,       \* per task: "idle" | "waiting" | "locked" | "reading"
                   \*           | "returned" | "panicked"
    task_op,       \* per task: the link operation it runs
    wire_log,      \* bookkeeping: CALLs written and reply reads ended, in order
    n_task_ops,    \* link operations started by the tasks
    \* --- stream transports (scpi_tcp.rs ScpiTcpProtocol, scpi_serial.rs
    \*     ScpiSerialProtocol) and the clock of their timeouts
    st_kind,       \* "none" | "tcp" | "serial": the transport constructed
    st_stream,     \* "None" | "Some": self.stream / self.serial
    st_pc,         \* "idle" | "raw" | "until" | "flush": the call in progress
    st_arg,        \* the arguments of the call in progress
    st_buf,        \* the local `resp` / `data` of the call in progress
    st_deadline,   \* the instant the call in progress times out, -1 for none
    st_result,     \* what the last call on the transport returned
    st_inbound,    \* bytes the peer has sent and the transport has not read
    st_closed,     \* the peer has closed the stream
    now,           \* Instant::now()
    \* --- bookkeeping for the properties (not program state)
    st_taken,      \* bytes the call in progress has read from the stream
    st_last_rx,    \* the instant the last byte arrived, -1 for none
    st_opens,      \* connections opened so far
    st_sent,       \* bytes the peer has sent so far
    st_ops,        \* calls made on the transport
    \* --- the ScpiProtocol facade (scpi.rs) over one transport
    sc_kind,       \* "none" | "tcp" | "serial" | "vxi": the transport
    sc_open,       \* self.stream / self.serial / self.link is Some
    sc_max,        \* max_recv_size of the link of a VXI transport
    sc_pc,         \* "idle" | "receiving" (inside int_recv) | "panicked"
    sc_call,       \* the call of the facade that runs or ran last
    sc_log,        \* the calls it made on the transport, in order
    sc_wire,       \* bytes its int_send wrote to the stream
    sc_dev,        \* DeviceWrite requests its int_send made
    sc_sent,       \* what its int_send returned
    sc_resp,       \* the local `resp` of int_recv
    sc_taken,      \* bytes its int_recv has read from the stream
    sc_inbound,    \* bytes the peer has sent and the transport has not read
    sc_closed,     \* the peer has closed the stream
    sc_result,     \* what the last call of the facade returned
    sc_ops,        \* calls made on the facade
    \* --- harness of the parsers and decoders: the last call and its result
    fn_op, fn_in, fn_out,
    \* --- the waveform reader of the Siglent oscilloscope driver
    \*     (equipment/drivers/oscilloscope_siglent.rs)
    drv_pc,        \* "idle" | "loop" (in the while of read_waveform) | "panicked"
    drv_desc,      \* n_points and comm_type of the descriptor read
    drv_sample,    \* the local `sample` of read_waveform
    drv_values,    \* waveform.readings.values, one entry per window appended
    drv_log,       \* the calls made on the ScpiProtocol, in order
    drv_hdr,       \* the prefix the last read_header read and what it did
    drv_taken,     \* bytes of the response read so far by the call
    drv_result,    \* what the last call of the driver returned
    \* --- tasks that share the transport of the driver through
    \*     Arc<Mutex<Box<dyn ScpiProtocol>>> (oscilloscope_siglent.rs:256-258)
    proto_lock,    \* the task that holds the guard of proto, 0 when none does
    ch_pc,         \* per task: "idle" | "waiting" | "send" | "header" |
                   \*           "payload" | "line" | "waiting_read"
    ch_op,         \* per task: the call of the driver it is in, or made last
    ch_res,        \* per task: what that call returned
    ch_got,        \* per task: the parts of replies the call has read
    ch_wire,       \* the sends and reads on the transport, in order
    ch_queue,      \* the parts of replies the instrument sent, not yet read
    n_ch_ops       \* calls of the driver started

xdrVars == <<xdr_op, xdr_in, xdr_packed, xdr_out>>

oncVars == <<stream, last_xid, onc_pc, responses, onc_result, inbound,
             peer_closed, last_packet, req_xid, sent_xids, discarded,
             n_calls, n_returned, n_written, srv_sent, frag_whole>>

linkVars == <<link, link_id, max_recv_size, link_pc, op_data, op_index,
              op_result, link_result, dev_calls, read_replies, n_ops,
              link_call, setup_log>>

concVars == <<client_lock, stream_lock, task_pc, task_op, wire_log, n_task_ops>>

streamVars == <<st_kind, st_stream, st_pc, st_arg, st_buf, st_deadline,
                st_result, st_inbound, st_closed, now, st_taken, st_last_rx,
                st_opens, st_sent, st_ops>>

scpiVars == <<sc_kind, sc_open, sc_max, sc_pc, sc_call, sc_log, sc_wire,
              sc_dev, sc_sent, sc_resp, sc_taken, sc_inbound, sc_closed,
              sc_result, sc_ops>>

fnVars == <<fn_op, fn_in, fn_out>>

chanVars == <<proto_lock, ch_pc, ch_op, ch_res, ch_got, ch_wire, ch_queue,
              n_ch_ops>>

drvVars == <<drv_pc, drv_desc, drv_sample, drv_values, drv_log, drv_hdr,
             drv_taken, drv_result, chanVars>>

appVars == <<scpiVars, fnVars, drvVars>>

vars == <<xdrVars, oncVars, linkVars, concVars, streamVars, appVars>>

-----------------------------------------------------------------------------
(* Bounds of the model *)

\* longest opaque payload handed to the XDR codec harness
MaxOpaqueLen == 4

\* calls of OncClient::request in one run
MaxRequests == 2

\* records the peer sends in one run
MaxRecords == 3

\* longest payload handed to VxiClientLink::write
MaxPayload == 5

\* largest max_recv_size a CreateLink reply carries
MaxRecvSize == 3

\* DeviceRead replies the peer gives before it must set END
MaxReads == 3

\* calls of write and recv in one run
MaxOps == 2

\* tasks that share the ONC client
NTasks == 2

\* link operations the tasks start in one run
MaxTaskOps == 3

\* instants of the clock: 0..MaxTime
MaxTime == 2

\* bytes the peer of a stream transport sends
MaxStreamBytes == 2

\* reads made on a stream transport in one run
MaxStreamOps == 2

\* connections a stream transport opens in one run
MaxOpens == 2

\* longest byte sequence handed to send and query
MaxScpiLen == 2

\* bytes the peer of the facade's stream sends during one call
MaxScpiBytes == 3

\* calls made on the facade in one run
MaxScpiOps == 2

\* comma-separated fields of the *IDN? responses handed to from_idn
MaxIdnFields == 4

\* replies of the portmapper to one GETPORT call
MaxPortReplies == 2

\* arguments after the '?' of a serial URI
MaxUriArgs == 2

\* windows of the largest waveform read, but one
MaxWindows == 2

\* samples of the windows decoded
MaxSamples == 2

\* calls of the driver that the tasks sharing its transport start in one run
MaxChanOps == 3

\* oscilloscope_siglent.rs:378: the samples of one window
WindowPoints == 20000

\* oscilloscope_siglent.rs:296: the bytes of the descriptor
DescSize == 346

\* byte values the harness draws buffers from
ByteVals == {0, 1, 255}

\* 32-bit patterns the harness draws words from (negative: top bit set)
WordVals == {0, 1, 255, 256, 65535, 65536, 16777216, 2147483647,
             -1, -2, -256, -2147483647, -2147483647 - 1}

RECURSIVE SeqsUpTo(_, _)
SeqsUpTo(S, n) ==
    IF n = 0 THEN {<<>>}
    ELSE LET shorter == SeqsUpTo(S, n - 1)
         IN  shorter \cup {Append(s, x) : s \in {t \in shorter : Len(t) = n - 1}, x \in S}

-----------------------------------------------------------------------------
(* XDR codec: protocol/vxi11/xdr.rs *)

Drop(s, n) == SubSeq(s, n + 1, Len(s))
Take(s, n) == SubSeq(s, 1, n)

Zeros(n) == [i \in 1..n |-> 0]

\* u32::to_be_bytes / i32::to_be_bytes on the 32-bit pattern
to_be_bytes(x) ==
    LET low == IF x < 0 THEN x + 2147483647 + 1 ELSE x
        top == IF x < 0 THEN 128 ELSE 0
    IN  << top + (low \div 16777216), (low \div 65536) % 256,
           (low \div 256) % 256, low % 256 >>

\* u32::from_be_bytes / i32::from_be_bytes giving the 32-bit pattern
from_be_bytes(b) ==
    LET low == ((b[1] % 128) * 16777216) + (b[2] * 65536) + (b[3] * 256) + b[4]
    IN  IF b[1] >= 128 THEN low - 2147483647 - 1 ELSE low

\* impl XdrPack for u32
pack_u32(x, out) == out \o to_be_bytes(x)

\* impl XdrPack for i32
pack_i32(x, out) == out \o to_be_bytes(x)

\* impl XdrPack for bool: (self as u32).pack_xdr(out)
pack_bool(b, out) == pack_u32(IF b THEN 1 ELSE 0, out)

\* the zero padding appended by the mutated encoder: pads even when aligned
PaddingAlways(len) == Zeros(4 - (len % 4))

\* the padding of impl XdrPack for Vec<u8>: none when len is a multiple of 4
Padding(len) == IF len % 4 # 0 THEN Zeros(4 - (len % 4)) ELSE <<>>

\* impl XdrPack for Vec<u8>
pack_opaque(v, out) == pack_u32(Len(v), out) \o v \o Padding(Len(v))

\* impl XdrPack for String: self.into_bytes().pack_xdr(out); a String is
\* held as its UTF-8 bytes
pack_string(s, out) == pack_opaque(s, out)

\* Results of the decoders: kind "ok" with the value and the bytes left in
\* src, kind "BadResponse" (Err(Error::BadResponse)), or kind "panic" (the
\* call unwinds: Vec::drain panics when the range ends past the length).
XOk(v, r) == [kind |-> "ok", val |-> v, rest |-> r]
XFail(k)  == [kind |-> k, val |-> 0, rest |-> <<>>]

\* pub fn unpack_u32: src.drain(0..4) panics on fewer than 4 bytes, so the
\* map_err to BadResponse is never reached
unpack_u32(src) ==
    IF Len(src) < 4 THEN XFail("panic")
    ELSE XOk(from_be_bytes(Take(src, 4)), Drop(src, 4))

\* pub fn unpack_i32
unpack_i32(src) ==
    IF Len(src) < 4 THEN XFail("panic")
    ELSE XOk(from_be_bytes(Take(src, 4)), Drop(src, 4))

\* pub fn unpack_u16: a u32 on the wire, rejected above 0xFFFF
unpack_u16(src) ==
    IF Len(src) < 4 THEN XFail("panic")
    ELSE LET val == from_be_bytes(Take(src, 4))
         IN  IF val < 0 \/ val > 65535 THEN XFail("BadResponse")
             ELSE XOk(val, Drop(src, 4))

\* the `?` operator on a decoder's result: a failure is returned as it is,
\* a success is handed on
Try(r, K(_)) == IF r.kind # "ok" THEN r ELSE K(r)

\* xdr.rs:83-97 of unpack_opaque, after the length has been read; the
\* padding bytes are drained without being looked at
OpaqueBody(length, src) ==
    IF length < 0 THEN XFail("BadResponse") \* length >= 2^31 > src.len()
    ELSE IF Len(src) - (IF length % 4 # 0 THEN 4 - (length % 4) ELSE 0) < length
         THEN XFail("BadResponse")
    ELSE XOk(Take(src, length),
             Drop(src, length + (IF length % 4 # 0 THEN 4 - (length % 4) ELSE 0)))

\* pub fn unpack_opaque
unpack_opaque(src) ==
    Try(unpack_u32(src), LAMBDA l : OpaqueBody(l.val, l.rest))

-----------------------------------------------------------------------------
(* ONC RPC messages: protocol/vxi11/onc.rs *)

RPC_VERSION == 2

\* LAST_MESSAGE_MARKER = 0x80000000, as a 32-bit pattern
LAST_MESSAGE_MARKER == -2147483647 - 1

\* x | LAST_MESSAGE_MARKER
OrMarker(x) == IF x >= 0 THEN x - 2147483647 - 1 ELSE x

\* x & !LAST_MESSAGE_MARKER
AndNotMarker(x) == IF x < 0 THEN x + 2147483647 + 1 ELSE x

\* (x & LAST_MESSAGE_MARKER) != 0
HasMarker(x) == x < 0

\* OpaqueAuth::new_null
NullAuth == [flavor |-> 0, body |-> <<>>]

\* impl XdrPack for OpaqueAuth
pack_auth(a, out) == pack_opaque(a.body, pack_u32(a.flavor, out))

\* OncClient::gen_call_packet: a CALL with the client's last_xid; args is the
\* request already packed by req.pack_xdr
gen_call_packet(xid, prog, vers, proc, args) ==
    [xid |-> xid, rpc_version |-> RPC_VERSION, prog |-> prog, vers |-> vers,
     proc |-> proc, cred |-> NullAuth, verf |-> NullAuth, args |-> args]

\* impl XdrPack for CallBody: args is appended as it is (out.extend)
pack_call_body(c, out) ==
    pack_auth(c.verf,
      pack_auth(c.cred,
        pack_u32(c.proc, pack_u32(c.vers, pack_u32(c.prog,
          pack_u32(c.rpc_version, out)))))) \o c.args

\* impl XdrPack for RpcMessage with MessageBody::Call: xid, 0, the call body
pack_message(m, out) == pack_call_body(m, pack_u32(0, pack_u32(m.xid, out)))

\* the header of the mutated framing: the length without the marker bit
HeaderNoMarker(len) == len

\* onc.rs:58: packed.len() as u32 | LAST_MESSAGE_MARKER
Header(len) == OrMarker(len)

\* onc.rs:55-61: the packet handed to write_all
FramePacket(m) ==
    to_be_bytes(Header(Len(pack_message(m, <<>>)))) \o pack_message(m, <<>>)

\* A decoded message body: tag names the variant, results holds the payload
\* of a success reply, info the words of the other variants.
Body(tag, results, info) == [tag |-> tag, results |-> results, info |-> info]

\* n successive unpack_u32 calls: panics when src runs out
RECURSIVE unpack_words(_, _)
unpack_words(src, n) ==
    IF n = 0 THEN XOk(<<>>, src)
    ELSE Try(unpack_u32(src), LAMBDA w :
           Try(unpack_words(w.rest, n - 1), LAMBDA r :
             XOk(<<w.val>> \o r.val, r.rest)))

\* OpaqueAuth::unpack
unpack_auth(src) ==
    Try(unpack_u32(src), LAMBDA f :
      IF f.val \notin 0..4 THEN XFail("BadResponse")
      ELSE Try(unpack_opaque(f.rest), LAMBDA b :
             XOk([flavor |-> f.val, body |-> b.val], b.rest)))

\* ProgMismatchBody::unpack
unpack_mismatch(src, tag) ==
    Try(unpack_words(src, 2), LAMBDA w : XOk(Body(tag, <<>>, w.val), w.rest))

\* AuthStat::unpack
unpack_auth_stat(src) ==
    Try(unpack_u32(src), LAMBDA w :
      IF w.val \notin 0..14 THEN XFail("BadResponse")
      ELSE XOk(Body("AuthError", <<>>, <<w.val>>), w.rest))

\* RejectedReplyBody::unpack
unpack_rejected(src) ==
    Try(unpack_u32(src), LAMBDA w :
      CASE w.val = 0 -> unpack_mismatch(w.rest, "Mismatch")
        [] w.val = 1 -> unpack_auth_stat(w.rest)
        [] OTHER     -> XFail("BadResponse"))

\* AcceptedReplyBodyType::unpack; Success takes all the bytes left (mem::take)
unpack_accepted_type(src) ==
    Try(unpack_u32(src), LAMBDA w :
      CASE w.val = 0 -> XOk(Body("Success", w.rest, <<>>), <<>>)
        [] w.val = 1 -> XOk(Body("ProgUnavail", <<>>, <<>>), w.rest)
        [] w.val = 2 -> unpack_mismatch(w.rest, "ProgMismatch")
        [] w.val = 3 -> XOk(Body("ProcUnavail", <<>>, <<>>), w.rest)
        [] w.val = 4 -> XOk(Body("GarbageArgs", <<>>, <<>>), w.rest)
        [] w.val = 5 -> XOk(Body("SystemErr", <<>>, <<>>), w.rest)
        [] OTHER     -> XFail("BadResponse"))

\* AcceptedReplyBody::unpack: the verifier, then the body
unpack_accepted(src) ==
    Try(unpack_auth(src), LAMBDA v : unpack_accepted_type(v.rest))

\* ReplyBody::unpack
unpack_reply(src) ==
    Try(unpack_u32(src), LAMBDA w :
      CASE w.val = 0 -> unpack_accepted(w.rest)
        [] w.val = 1 -> unpack_rejected(w.rest)
        [] OTHER     -> XFail("BadResponse"))

\* CallBody::unpack: four words, two auths, args read as an opaque
unpack_call(src) ==
    Try(unpack_words(src, 4), LAMBDA w :
      Try(unpack_auth(w.rest), LAMBDA c :
        Try(unpack_auth(c.rest), LAMBDA v :
          Try(unpack_opaque(v.rest), LAMBDA a :
            XOk(Body("Call", a.val, w.val), a.rest)))))

\* MessageBody::unpack
unpack_body(src) ==
    Try(unpack_u32(src), LAMBDA w :
      CASE w.val = 0 -> unpack_call(w.rest)
        [] w.val = 1 -> unpack_reply(w.rest)
        [] OTHER     -> XFail("BadResponse"))

\* RpcMessage::unpack: val is [xid, body]
unpack_message(src) ==
    Try(unpack_u32(src), LAMBDA x :
      Try(unpack_body(x.rest), LAMBDA b :
        XOk([xid |-> x.val, body |-> b.val], b.rest)))

\* what the message of an error names: the variant decoded and its words
Variant(tag, info) == [tag |-> tag, info |-> info]
NoVariant == Variant("", <<>>)

\* a result taken from every message
get_any_result(m) == [kind |-> "ok", val |-> m.body.results, what |-> NoVariant]

\* RpcMessage::get_success_result: the payload of an accepted SUCCESS reply,
\* Err(Unspecified) for every other message: "Not a reply message" for a
\* call, else with the Debug form of the rejection or of the accepted body
get_success_result(m) ==
    IF m.body.tag = "Success"
    THEN [kind |-> "ok", val |-> m.body.results, what |-> NoVariant]
    ELSE IF m.body.tag = "Call"
    THEN [kind |-> "Unspecified", val |-> <<>>, what |-> Variant("Call", <<>>)]
    ELSE [kind |-> "Unspecified", val |-> <<>>,
          what |-> Variant(m.body.tag, m.body.info)]

-----------------------------------------------------------------------------
(* XDR codec harness: each action is one call of an encoder followed by    *)
(* the matching decoder, or one call of a decoder on a received buffer.    *)

XdrNone == [kind |-> "none", val |-> 0, rest |-> <<>>]

InitXdr ==
    /\ xdr_op = "init"
    /\ xdr_in = <<>>
    /\ xdr_packed = <<>>
    /\ xdr_out = XdrNone

\* bytes that follow a packed value in the same buffer
Tails == {<<>>, <<7>>, <<0, 0, 0, 9>>}

RoundTripOpaque ==
    \E b \in SeqsUpTo(ByteVals, MaxOpaqueLen), tail \in Tails :
        /\ xdr_op = "init"
        /\ xdr_op' = "opaque"
        /\ xdr_in' = <<b, tail>>
        /\ xdr_packed' = pack_opaque(b, <<>>)
        /\ xdr_out' = unpack_opaque(pack_opaque(b, <<>>) \o tail)
        /\ UNCHANGED <<appVars, streamVars, oncVars, linkVars, concVars>>

RoundTripString ==
    \E s \in SeqsUpTo({105, 48}, MaxOpaqueLen), tail \in Tails :
        /\ xdr_op = "init"
        /\ xdr_op' = "string"
        /\ xdr_in' = <<s, tail>>
        /\ xdr_packed' = pack_string(s, <<>>)
        /\ xdr_out' = unpack_opaque(pack_string(s, <<>>) \o tail)
        /\ UNCHANGED <<appVars, streamVars, oncVars, linkVars, concVars>>

RoundTripU32 ==
    \E x \in WordVals, tail \in Tails :
        /\ xdr_op = "init"
        /\ xdr_op' = "u32"
        /\ xdr_in' = <<x, tail>>
        /\ xdr_packed' = pack_u32(x, <<>>)
        /\ xdr_out' = unpack_u32(pack_u32(x, <<>>) \o tail)
        /\ UNCHANGED <<appVars, streamVars, oncVars, linkVars, concVars>>

RoundTripI32 ==
    \E x \in WordVals, tail \in Tails :
        /\ xdr_op = "init"
        /\ xdr_op' = "i32"
        /\ xdr_in' = <<x, tail>>
        /\ xdr_packed' = pack_i32(x, <<>>)
        /\ xdr_out' = unpack_i32(pack_i32(x, <<>>) \o tail)
        /\ UNCHANGED <<appVars, streamVars, oncVars, linkVars, concVars>>

RoundTripBool ==
    \E b \in BOOLEAN, tail \in Tails :
        /\ xdr_op = "init"
        /\ xdr_op' = "bool"
        /\ xdr_in' = <<b, tail>>
        /\ xdr_packed' = pack_bool(b, <<>>)
        /\ xdr_out' = unpack_u32(pack_bool(b, <<>>) \o tail)
        /\ UNCHANGED <<appVars, streamVars, oncVars, linkVars, concVars>>

\* a decoder called on a buffer too short for the value it must read
DecodeShort ==
    \E src \in SeqsUpTo(ByteVals, 3),
       dec \in {"unpack_u32", "unpack_i32", "unpack_u16", "unpack_opaque"} :
        /\ xdr_op = "init"
        /\ xdr_op' = "short"
        /\ xdr_in' = <<dec, src>>
        /\ xdr_packed' = src
        /\ xdr_out' = CASE dec = "unpack_u32" -> unpack_u32(src)
                        [] dec = "unpack_i32" -> unpack_i32(src)
                        [] dec = "unpack_u16" -> unpack_u16(src)
                        [] OTHER -> unpack_opaque(src)
        /\ UNCHANGED <<appVars, streamVars, oncVars, linkVars, concVars>>

\* unpack_opaque called on a length word followed by too few bytes
DecodeTruncatedOpaque ==
    \E b \in SeqsUpTo(ByteVals, MaxOpaqueLen), cut \in 1..3 :
        /\ Len(b) >= 1
        /\ cut <= Len(b) + Len(Padding(Len(b)))
        /\ xdr_op = "init"
        /\ xdr_op' = "truncated"
        /\ xdr_in' = <<b, cut>>
        /\ xdr_packed' = Take(pack_opaque(b, <<>>), Len(pack_opaque(b, <<>>)) - cut)
        /\ xdr_out' = unpack_opaque(Take(pack_opaque(b, <<>>),
                                         Len(pack_opaque(b, <<>>)) - cut))
        /\ UNCHANGED <<appVars, streamVars, oncVars, linkVars, concVars>>

\* unpack_opaque called on data whose padding bytes are not zero
DecodeBadPadding ==
    \E b \in SeqsUpTo(ByteVals, MaxOpaqueLen), pad \in {1, 255} :
        /\ Len(b) % 4 # 0
        /\ xdr_op = "init"
        /\ xdr_op' = "badpad"
        /\ xdr_in' = <<b, pad>>
        /\ xdr_packed' = pack_u32(Len(b), <<>>) \o b
                            \o [i \in 1..(4 - (Len(b) % 4)) |-> pad]
        /\ xdr_out' = unpack_opaque(pack_u32(Len(b), <<>>) \o b
                            \o [i \in 1..(4 - (Len(b) % 4)) |-> pad])
        /\ UNCHANGED <<appVars, streamVars, oncVars, linkVars, concVars>>

\* the harness is ready for the next call
XdrReset ==
    /\ xdr_op # "init"
    /\ xdr_op' = "init"
    /\ xdr_in' = <<>>
    /\ xdr_packed' = <<>>
    /\ xdr_out' = XdrNone
    /\ UNCHANGED <<appVars, streamVars, oncVars, linkVars, concVars>>

NextXdr ==
    \/ XdrReset
    \/ RoundTripOpaque
    \/ RoundTripString
    \/ RoundTripU32
    \/ RoundTripI32
    \/ RoundTripBool
    \/ DecodeShort
    \/ DecodeTruncatedOpaque
    \/ DecodeBadPadding

-----------------------------------------------------------------------------
(* ONC client: OncClient::connect, request and read_response               *)

\* a comparison that takes every record for a reply to the request
XidMatchesAny(msg_xid, xid) == TRUE

\* onc.rs:85: unpacked.xid == self.last_xid
XidMatches(msg_xid, xid) == msg_xid = xid

\* a loop that ends on any record with the last-fragment bit
BreaksOnAnyLast(matches, header) == HasMarker(header)

\* onc.rs:85-90: the loop ends on a matching record with the last-fragment bit
BreaksLoop(matches, header) == matches /\ HasMarker(header)

\* an increment that is left out
NextXidStuck(x) == x

\* self.last_xid += 1 on the 32-bit pattern
NextXid(x) == IF x = 2147483647 THEN -2147483647 - 1 ELSE x + 1

\* onc.rs:84-93 of read_response: what the loop does with the unpacked
\* record whose header is `header`; `after` is the stream past the record
Dispatch(unpacked, header, after, xid, resps) ==
    IF unpacked.kind # "ok"
    THEN [status |-> unpacked.kind, inbound |-> after,
          responses |-> resps, dropped |-> <<>>]
    ELSE IF XidMatches(unpacked.val.xid, xid)
    THEN [status    |-> IF BreaksLoop(TRUE, header) THEN "break" ELSE "continue",
          inbound   |-> after,
          responses |-> Append(resps, unpacked.val),
          dropped   |-> <<>>]
    ELSE [status    |-> IF BreaksLoop(FALSE, header) THEN "break" ELSE "continue",
          inbound   |-> after,
          responses |-> resps,
          dropped   |-> <<unpacked.val>>]

\* onc.rs:78-82 of read_response: read_u32 and read_exact of one record
ReadRecord(header, inb, closed, xid, resps) ==
    IF Len(inb) - 4 < AndNotMarker(header)
    THEN [status |-> IF closed THEN "IoError" ELSE "block",
          inbound |-> IF closed THEN <<>> ELSE inb,
          responses |-> resps, dropped |-> <<>>]
    ELSE Dispatch(unpack_message(SubSeq(inb, 5, 4 + AndNotMarker(header))),
                  header, Drop(inb, 4 + AndNotMarker(header)), xid, resps)

\* One iteration of the loop of read_response on the bytes `inb` of the
\* stream.  status: "block" (the read awaits more bytes), "IoError" (the
\* stream ended inside the record), "panic" (RpcMessage::unpack unwound),
\* "BadResponse" (RpcMessage::unpack failed), "continue" or "break".
ReadOne(inb, closed, xid, resps) ==
    IF Len(inb) < 4
    THEN [status |-> IF closed THEN "IoError" ELSE "block",
          inbound |-> IF closed THEN <<>> ELSE inb,
          responses |-> resps, dropped |-> <<>>]
    ELSE ReadRecord(from_be_bytes(Take(inb, 4)), inb, closed, xid, resps)

\* what a call returned: op names the method, kind is "Ok", "Err" or
\* "panic", err the Error variant, responses the Vec<RpcMessage> of request
NoResult == [op |-> "none", kind |-> "none", err |-> "", responses |-> <<>>]
OkResult(op, r) == [op |-> op, kind |-> "Ok", err |-> "", responses |-> r]
ErrResult(op, e) == [op |-> op, kind |-> "Err", err |-> e, responses |-> <<>>]
PanicResult(op) == [op |-> op, kind |-> "panic", err |-> "", responses |-> <<>>]

InitOnc ==
    /\ stream = "None"
    /\ last_xid = 0
    /\ onc_pc = "idle"
    /\ responses = <<>>
    /\ onc_result = NoResult
    /\ inbound = <<>>
    /\ peer_closed = FALSE
    /\ last_packet = <<>>
    /\ req_xid = 0
    /\ sent_xids = <<>>
    /\ discarded = {}
    /\ n_calls = 0
    /\ n_returned = 0
    /\ n_written = 0
    /\ srv_sent = 0
    /\ frag_whole = <<>>

\* OncClient::connect: refused when a stream is held; else the TCP connect
\* succeeds or fails
OncConnect ==
    /\ onc_pc = "idle"
    /\ \/ /\ stream = "Some"
          /\ onc_result' = ErrResult("connect", "Unspecified")
          /\ stream' = stream
       \/ /\ stream = "None"
          /\ \/ stream' = "Some" /\ onc_result' = OkResult("connect", <<>>)
             \/ stream' = "None" /\ onc_result' = ErrResult("connect", "Unhandled")
    /\ UNCHANGED <<last_xid, onc_pc, responses, inbound, peer_closed,
                   last_packet, req_xid, sent_xids, discarded, n_calls,
                   n_returned, n_written, srv_sent, frag_whole>>
    /\ UNCHANGED <<appVars, streamVars, xdrVars, linkVars, concVars>>

\* the requests the callers of the client make: a procedure and its packed
\* arguments
Calls == { <<3, pack_u32(0, pack_u32(6, pack_u32(1, pack_u32(395183, <<>>))))>>,
           <<11, pack_opaque(<<42, 10>>, <<>>)>> }

\* OncClient::request up to its first await in read_response, with the
\* message built by gen_call_packet just before, as every caller does:
\* no stream -> Err; write_all fails -> Err (the xid is not incremented);
\* else the packet is on the wire and read_response starts
OncRequest ==
    \E call \in Calls :
        /\ onc_pc = "idle"
        /\ n_calls < MaxRequests
        /\ n_calls' = n_calls + 1
        /\ req_xid' = last_xid
        /\ frag_whole' = <<>>
        /\ \/ /\ stream = "None"
              /\ onc_result' = ErrResult("request", "Unspecified")
              /\ n_returned' = n_returned + 1
              /\ UNCHANGED <<onc_pc, responses, last_packet, sent_xids>>
           \/ /\ stream = "Some"
              /\ onc_result' = ErrResult("request", "IoError")
              /\ n_returned' = n_returned + 1
              /\ UNCHANGED <<onc_pc, responses, last_packet, sent_xids>>
           \/ /\ stream = "Some"
              /\ last_packet' =
                    FramePacket(gen_call_packet(last_xid, 100000, 2, call[1], call[2]))
              /\ sent_xids' = Append(sent_xids, last_xid)
              /\ responses' = <<>>
              /\ onc_pc' = "reading"
              /\ onc_result' = NoResult
              /\ UNCHANGED n_returned
        /\ UNCHANGED <<stream, last_xid, inbound, peer_closed, discarded,
                       n_written, srv_sent>>
        /\ UNCHANGED <<appVars, streamVars, xdrVars, linkVars, concVars>>

\* One iteration of the loop of read_response, and, when the loop ends, the
\* rest of request: self.last_xid += 1 and the return of resp.  A `?` inside
\* read_response returns to request, which still increments the xid.
OncReadRecord ==
    /\ onc_pc = "reading"
    /\ \E r \in {ReadOne(inbound, peer_closed, last_xid, responses)} :
           /\ r.status # "block"
           /\ inbound' = r.inbound
           /\ discarded' = discarded \cup
                 {[msg |-> r.dropped[i], req |-> last_xid] : i \in 1..Len(r.dropped)}
           /\ \/ /\ r.status = "continue"
                 /\ responses' = r.responses
                 /\ UNCHANGED <<onc_pc, onc_result, last_xid, n_returned, n_written>>
              \/ /\ r.status = "break"
                 /\ responses' = <<>>
                 /\ onc_result' = OkResult("request", r.responses)
                 /\ last_xid' = NextXid(last_xid)
                 /\ onc_pc' = "idle"
                 /\ n_returned' = n_returned + 1
                 /\ n_written' = n_written + 1
              \/ /\ r.status \in {"BadResponse", "IoError"}
                 /\ responses' = <<>>
                 /\ onc_result' = ErrResult("request", r.status)
                 /\ last_xid' = NextXid(last_xid)
                 /\ onc_pc' = "idle"
                 /\ n_returned' = n_returned + 1
                 /\ n_written' = n_written + 1
              \/ /\ r.status = "panic"
                 /\ responses' = <<>>
                 /\ onc_result' = PanicResult("request")
                 /\ onc_pc' = "panicked"
                 /\ UNCHANGED <<last_xid, n_returned, n_written>>
    /\ UNCHANGED <<stream, peer_closed, last_packet, req_xid, sent_xids,
                   n_calls, srv_sent, frag_whole>>
    /\ UNCHANGED <<appVars, streamVars, xdrVars, linkVars, concVars>>

\* Records of the peer.  Each carries the number of the record in its
\* payload, so that every record of a run is distinct.
Record(last, data) ==
    to_be_bytes(IF last THEN OrMarker(Len(data)) ELSE Len(data)) \o data

\* an accepted SUCCESS reply: xid, REPLY, MSG_ACCEPTED, null verifier, SUCCESS
SuccessReply(xid, results) ==
    pack_u32(0, pack_auth(NullAuth, pack_u32(0, pack_u32(1, pack_u32(xid, <<>>)))))
        \o results

\* a rejected reply: xid, REPLY, MSG_DENIED, RPC_MISMATCH, low, high
RejectedReply(xid, low, high) ==
    pack_u32(high, pack_u32(low, pack_u32(0, pack_u32(1,
        pack_u32(1, pack_u32(xid, <<>>))))))

\* a message of an unknown type
UnknownTypeMessage(xid) == pack_u32(9, pack_u32(xid, <<>>))

\* the xids the peer puts in its records: the one awaited, and the next one
PeerXids == {last_xid, NextXid(last_xid)}

ServerSend ==
    \E xid \in PeerXids, last \in BOOLEAN,
       shape \in {"success", "rejected", "unknown", "short"} :
        /\ srv_sent < MaxRecords
        /\ ~peer_closed
        /\ onc_pc # "panicked"
        /\ stream = "Some"
        /\ shape \in {"unknown", "short"} => last
        /\ shape = "short" => xid = last_xid
        /\ shape = "rejected" => last
        /\ inbound' = inbound \o
              Record(last,
                     CASE shape = "success"  -> SuccessReply(xid, pack_u32(srv_sent, <<>>))
                       [] shape = "rejected" -> RejectedReply(xid, srv_sent, srv_sent)
                       [] shape = "unknown"  -> UnknownTypeMessage(xid)
                       [] OTHER              -> <<0, 1>>)
        /\ srv_sent' = srv_sent + 1
        /\ UNCHANGED <<stream, last_xid, onc_pc, responses, onc_result,
                       peer_closed, last_packet, req_xid, sent_xids, discarded,
                       n_calls, n_returned, n_written, frag_whole>>
        /\ UNCHANGED <<appVars, streamVars, xdrVars, linkVars, concVars>>

\* where the peer cuts a reply it sends as two record fragments
FragCuts == {8, 24}

\* the peer answers the request with one reply cut in two record fragments,
\* the second with the last-fragment bit (RFC 5531 record marking)
ServerSendFragments ==
    \E cut \in FragCuts :
        \E whole \in {SuccessReply(last_xid, pack_u32(srv_sent, <<>>))} :
            /\ srv_sent + 2 <= MaxRecords
            /\ ~peer_closed
            /\ onc_pc = "reading"
            /\ inbound = <<>>
            /\ responses = <<>>
            /\ frag_whole = <<>>
            /\ frag_whole' = whole
            /\ inbound' = Record(FALSE, Take(whole, cut))
                            \o Record(TRUE, Drop(whole, cut))
            /\ srv_sent' = srv_sent + 2
            /\ UNCHANGED <<stream, last_xid, onc_pc, responses, onc_result,
                           peer_closed, last_packet, req_xid, sent_xids,
                           discarded, n_calls, n_returned, n_written>>
            /\ UNCHANGED <<appVars, streamVars, xdrVars, linkVars, concVars>>

ServerClose ==
    /\ stream = "Some"
    /\ ~peer_closed
    /\ onc_pc # "panicked"
    /\ peer_closed' = TRUE
    /\ UNCHANGED <<stream, last_xid, onc_pc, responses, onc_result, inbound,
                   last_packet, req_xid, sent_xids, discarded, n_calls,
                   n_returned, n_written, srv_sent, frag_whole>>
    /\ UNCHANGED <<appVars, streamVars, xdrVars, linkVars, concVars>>

\* read_u32 and read_exact of read_response have what they wait for: a
\* whole record, or the end of the stream
CanRead ==
    \/ peer_closed
    \/ /\ Len(inbound) >= 4
       /\ Len(inbound) - 4 >= AndNotMarker(from_be_bytes(Take(inbound, 4)))

\* A turn of the loop of read_response as the scheduler sees it: the task,
\* woken by the stream, takes bytes from it or leaves the loop.  These are
\* the steps of OncReadRecord, and no others.
ReadTurn ==
    /\ onc_pc = "reading"
    /\ CanRead
    /\ onc_pc' \in {"reading", "idle", "panicked"}
    /\ \E k \in 0..Len(inbound) : inbound' = Drop(inbound, k)
    /\ inbound' # inbound \/ onc_pc' # "reading"

NextOnc ==
    \/ OncConnect
    \/ OncRequest
    \/ OncReadRecord
    \/ ServerSend
    \/ ServerSendFragments
    \/ ServerClose

-----------------------------------------------------------------------------
(* VXI-11 requests and responses: protocol/vxi11/rpc.rs, mod.rs constants  *)

VXI_CORE_PROG == 395183
VXI_CORE_VERS == 1
CLIENT_ID == 1
LOCK_TIMEOUT == 10000
READ_SIZE == 65536

\* rpc::RpcRequest as u32
CreateLinkProc == 10
DeviceWriteProc == 11
DeviceReadProc == 12

\* "inst0" as UTF-8
Inst0 == <<105, 110, 115, 116, 48>>

\* impl XdrPack for RpcOperationFlags: bits 0, 3 and 7 of a u32
FlagsWord(wait_lock, end, termchr_set) ==
    (IF wait_lock THEN 1 ELSE 0) + (IF end THEN 8 ELSE 0)
        + (IF termchr_set THEN 128 ELSE 0)

\* impl XdrPack for RpcRequestCreateDeviceLink
pack_create_link(req) ==
    pack_string(req.device, pack_u32(req.lock_timeout,
        pack_bool(req.lock_device, pack_i32(req.client_id, <<>>))))

\* impl XdrPack for RpcRequestDeviceWrite
pack_device_write(req) ==
    pack_opaque(req.data, pack_u32(req.flags, pack_u32(req.lock_timeout,
        pack_u32(req.io_timeout, pack_i32(req.lid, <<>>)))))

\* impl XdrPack for RpcRequestDeviceRead
pack_device_read(req) ==
    pack_u32(req.termchr, pack_u32(req.flags, pack_u32(req.lock_timeout,
        pack_u32(req.io_timeout, pack_u32(req.request_size,
            pack_i32(req.lid, <<>>))))))

\* RpcResponseCreateDeviceLink::unpack: error, lid, abort_port, max_recv_size
unpack_create_link(src) ==
    Try(unpack_u32(src), LAMBDA err :
      Try(unpack_i32(err.rest), LAMBDA lid :
        Try(unpack_u16(lid.rest), LAMBDA port :
          Try(unpack_u32(port.rest), LAMBDA size :
            XOk([error |-> err.val, lid |-> lid.val, abort_port |-> port.val,
                 max_recv_size |-> size.val], size.rest)))))

\* RpcResponseDeviceWrite::unpack: error, size
unpack_device_write(src) ==
    Try(unpack_u32(src), LAMBDA err :
      Try(unpack_u32(err.rest), LAMBDA size :
        XOk([error |-> err.val, size |-> size.val], size.rest)))

\* a reason decoder that looks for END at the bit of the request flags
ReasonEndBit3(flags) == (flags \div 8) % 2 = 1

\* RpcDeviceReadReason::unpack: end is bit 2 of the reason word
ReasonEnd(flags) == (flags \div 4) % 2 = 1

\* RpcResponseDeviceRead::unpack: error, reason, data
unpack_device_read(src) ==
    Try(unpack_u32(src), LAMBDA err :
      Try(unpack_u32(err.rest), LAMBDA reason :
        Try(unpack_opaque(reason.rest), LAMBDA data :
          XOk([error |-> err.val, end |-> ReasonEnd(reason.val),
               data |-> data.val], data.rest))))

\* RpcDeviceErrorCode::NoError
NoError == 0

-----------------------------------------------------------------------------
(* VXI-11 transport: protocol/vxi11/mod.rs *)

\* read_response run to its end on the bytes of the stream
RECURSIVE read_response(_, _, _, _)
ReadLoop(r, closed, xid) ==
    IF r.status = "continue"
    THEN read_response(r.inbound, closed, xid, r.responses)
    ELSE r
read_response(inb, closed, xid, resps) ==
    ReadLoop(ReadOne(inb, closed, xid, resps), closed, xid)

\* What a link operation makes of the outcome r of read_response, given the
\* decoder of its response: request returns r, then
\* resp.get_success_result()? (of the first message), then unpack(..)?,
\* then the check of result.error.
\* kind: "Ok" with val, "Err" with err, or "panic"; dev is the device error
\* that the message of the error names, NoError when it names none.
LinkOk(v) == [kind |-> "Ok", err |-> "", val |-> v, dev |-> NoError]
LinkErr(e) == [kind |-> "Err", err |-> e, val |-> <<>>, dev |-> NoError]
LinkPanic == [kind |-> "panic", err |-> "", val |-> <<>>, dev |-> NoError]

\* Err(Error::Unspecified(format!("Failed to ..: {:?}", result.error)))
\* (mod.rs:168-173, 216-221, 297-302)
DeviceFailed(error) ==
    [kind |-> "Err", err |-> "Unspecified", val |-> <<>>, dev |-> error]

\* a check that takes every decoded response for a good one
CheckedAny(u) ==
    IF u.kind = "panic" THEN LinkPanic
    ELSE IF u.kind # "ok" THEN LinkErr(u.kind)
    ELSE LinkOk(u.val)

Checked(u) ==
    IF u.kind = "panic" THEN LinkPanic
    ELSE IF u.kind # "ok" THEN LinkErr(u.kind)
    ELSE IF u.val.error # NoError THEN DeviceFailed(u.val.error)
    ELSE LinkOk(u.val)

Decoded(r, Unpack(_)) ==
    IF r.status = "panic" THEN LinkPanic
    ELSE IF r.status # "break" THEN LinkErr(r.status)
    ELSE IF get_success_result(r.responses[1]).kind # "ok"
    THEN LinkErr("Unspecified")
    ELSE Checked(Unpack(get_success_result(r.responses[1]).val))

\* mod.rs gen_call_packet with VxiPortType::Core
core_call_packet(xid, proc, args) ==
    gen_call_packet(xid, VXI_CORE_PROG, VXI_CORE_VERS, proc, args)

\* a flag that is never set
IsLastNever(index, n_chunks) == index = n_chunks

\* mod.rs:181: index == (n_chunks - 1)
IsLast(index, n_chunks) == index = n_chunks - 1

\* usize::div_ceil (mod.rs:179), for a divisor above 0
div_ceil(a, b) == (a \div b) + (IF a % b # 0 THEN 1 ELSE 0)

\* data.chunks(size): the chunk of 0-based index i
Chunk(data, size, i) ==
    SubSeq(data, (i * size) + 1,
           IF (i + 1) * size < Len(data) THEN (i + 1) * size ELSE Len(data))

\* mod.rs:141-151: the request of write_packet
DeviceWriteReq(data, is_last) ==
    [proc |-> DeviceWriteProc, lid |-> link_id, io_timeout |-> LOCK_TIMEOUT,
     lock_timeout |-> LOCK_TIMEOUT, flags |-> FlagsWord(FALSE, is_last, FALSE),
     data |-> data, request_size |-> 0, termchr |-> 0]

\* mod.rs:192-203: the request of recv_packet
DeviceReadReq ==
    [proc |-> DeviceReadProc, lid |-> link_id, io_timeout |-> LOCK_TIMEOUT,
     lock_timeout |-> LOCK_TIMEOUT, flags |-> FlagsWord(FALSE, FALSE, FALSE),
     data |-> <<>>, request_size |-> READ_SIZE, termchr |-> 0]

\* mod.rs:284-290: the request of create_link
CreateLinkReq ==
    [client_id |-> CLIENT_ID, lock_device |-> FALSE,
     lock_timeout |-> LOCK_TIMEOUT, device |-> Inst0]

NoLinkResult ==
    [op |-> "none", kind |-> "none", err |-> "", val |-> <<>>, dev |-> NoError]

\* the call of the ScpiProtocol trait that runs, with its timeout argument
\* (-1 when it has none)
LinkCall(name, timeout) == [name |-> name, timeout |-> timeout]
NoCall == LinkCall("none", -1)
LinkResult(op, o) ==
    [op |-> op, kind |-> o.kind, err |-> o.err, val |-> o.val, dev |-> o.dev]

InitLink ==
    /\ link = "None"
    /\ link_id = 0
    /\ max_recv_size = 0
    /\ link_pc = "idle"
    /\ op_data = <<>>
    /\ op_index = 0
    /\ op_result = <<>>
    /\ link_result = NoLinkResult
    /\ dev_calls = <<>>
    /\ read_replies = <<>>
    /\ n_ops = 0
    /\ link_call = NoCall
    /\ setup_log = <<>>

\* The replies of the peer to one CALL with the given xid, as the bytes it
\* puts on the stream; each ends with a matching record that has the
\* last-fragment bit.  reply is what an error-free DeviceRead reply carries.
Script(bytes, reply) == [bytes |-> bytes, reply |-> reply]

Words2(a, b) == pack_u32(b, pack_u32(a, <<>>))

CreateLinkScripts(xid) ==
    { Script(Record(TRUE, SuccessReply(xid,
                pack_u32(m, pack_u32(1024, pack_i32(7, pack_u32(NoError, <<>>)))))),
             <<7, m>>)
        : m \in 0..MaxRecvSize }
    \cup
    { Script(Record(TRUE, SuccessReply(xid,
                pack_u32(0, pack_u32(0, pack_i32(0, pack_u32(9, <<>>)))))), <<>>),
      Script(Record(TRUE, RejectedReply(xid, 2, 2)), <<>>) }

DeviceWriteScripts(xid, size) ==
    { Script(Record(TRUE, SuccessReply(xid, Words2(NoError, size))), <<>>),
      Script(Record(TRUE, SuccessReply(NextXid(xid), Words2(NoError, size)))
               \o Record(TRUE, SuccessReply(xid, Words2(NoError, size))), <<>>),
      Script(Record(TRUE, SuccessReply(xid, Words2(15, 0))), <<>>),
      Script(Record(TRUE, RejectedReply(xid, 2, 2)), <<>>),
      Script(Record(TRUE, SuccessReply(xid, pack_u32(NoError, <<>>))), <<>>) }

\* the data and the reason words (REQCNT = 1, CHR = 2, END = 4) of the
\* DeviceRead replies of the peer
ReadData == {<<>>, <<65>>, <<66, 66, 66, 66, 66>>}
ReadReasons == {1, 4, 5}
EndReasons == {4, 5}

DeviceReadScripts(xid) ==
    { Script(Record(TRUE, SuccessReply(xid,
                pack_opaque(d, Words2(NoError, reason)))),
             <<[data |-> d, reason |-> reason]>>)
        : d \in ReadData, reason \in ReadReasons }
    \cup
    { Script(Record(TRUE, SuccessReply(xid, pack_opaque(<<>>, Words2(17, 0)))), <<>>),
      Script(Record(TRUE, RejectedReply(xid, 2, 2)), <<>>) }

\* portmap.rs: the program, the version and the GETPORT procedure of the
\* portmapper, and RpcIpProto::Tcp
PORTMAP_PROG == 100000
PORTMAP_VERS == 2
GetPortProc == 3
TcpProto == 6

\* a mapping packed with prog and vers in each other's place
pack_mapping_swapped(m) ==
    pack_u32(m.port, pack_u32(m.prot, pack_u32(m.prog, pack_u32(m.vers, <<>>))))

\* impl XdrPack for RpcMapping: prog, vers, prot, port
pack_mapping(m) ==
    pack_u32(m.port, pack_u32(m.prot, pack_u32(m.vers, pack_u32(m.prog, <<>>))))

\* VxiClient::get_port(Core) -> connect_and_request_port -> request_port on
\* a new OncClient (xid 0): the packet of the GETPORT call
get_port_packet ==
    FramePacket(gen_call_packet(0, PORTMAP_PROG, PORTMAP_VERS, GetPortProc,
        pack_mapping([prog |-> VXI_CORE_PROG, vers |-> VXI_CORE_VERS,
                      prot |-> TcpProto, port |-> 0])))

\* the replies of the portmapper to the GETPORT call; reply is the port of
\* a reply that carries one (the first, when there are two)
GetPortScripts ==
    { Script(Record(TRUE, SuccessReply(0, pack_u32(1024, <<>>))), <<1024>>),
      Script(Record(FALSE, SuccessReply(0, pack_u32(1024, <<>>)))
               \o Record(TRUE, SuccessReply(0, pack_u32(1025, <<>>))), <<1024>>),
      Script(Record(TRUE, SuccessReply(0, pack_u32(70000, <<>>))), <<>>),
      Script(Record(TRUE, RejectedReply(0, 2, 2)), <<>>) }

\* portmap.rs:51-63: what request_port makes of the outcome r of
\* read_response: the first response, get_success_result()?, unpack_u16
PortChecked(u) ==
    IF u.kind = "panic" THEN LinkPanic
    ELSE IF u.kind # "ok" THEN LinkErr(u.kind)
    ELSE LinkOk(u.val)

PortOutcome(r) ==
    IF r.status = "panic" THEN LinkPanic
    ELSE IF r.status # "break" THEN LinkErr(r.status)
    ELSE IF get_success_result(r.responses[1]).kind # "ok"
    THEN LinkErr("Unspecified")
    ELSE PortChecked(unpack_u16(get_success_result(r.responses[1]).val))

\* one step of the session setup: a TCP connect, a CALL written, or the
\* values a reply carried, with the peer ("portmap" or "core")
SetupEvent(ev, to, data) == [ev |-> ev, to |-> to, data |-> data]

\* the session setup up to the port: the TCP connect to the portmapper and
\* the GETPORT call, then the values of the reply when it carries a port
PortSetup(s) ==
    << SetupEvent("tcp_connect", "portmap", <<>>),
       SetupEvent("call", "portmap", get_port_packet) >>
    \o (IF s.reply = <<>> THEN <<>> ELSE <<SetupEvent("reply", "portmap", s.reply)>>)

\* mod.rs:284-293: the packet of the CreateLink call on the new core client
create_link_packet ==
    FramePacket(core_call_packet(0, CreateLinkProc, pack_create_link(CreateLinkReq)))

\* what request_port returns for each reply of the portmapper, with the port
\* the reply carried
PortReplies ==
    { [reply |-> ps.reply,
       port  |-> PortOutcome(read_response(ps.bytes, FALSE, 0, <<>>))]
        : ps \in GetPortScripts }

\* what create_link decodes (mod.rs:293-303) for each reply of the core
\* channel, with the values the reply carried
LinkReplies ==
    { [reply |-> s.reply,
       link  |-> Decoded(read_response(s.bytes, FALSE, 0, <<>>), unpack_create_link)]
        : s \in CreateLinkScripts(0) }

\* ScpiVxiProtocol::connect (mod.rs:51-61): refused when a link is held; else
\* VxiClient::connect (the port from the portmapper over a temporary
\* OncClient, then a new OncClient and its TCP connect to that port, which
\* becomes the core client), then VxiClient::create_link; every `?` returns
\* the error and leaves what was not yet assigned as it was
VxiConnect ==
    /\ link_pc = "idle"
    /\ onc_pc = "idle"
    /\ \/ /\ link = "Some"
          /\ link_result' = LinkResult("connect", LinkErr("Unspecified"))
          /\ UNCHANGED <<link, link_id, max_recv_size, stream, last_xid,
                         inbound, peer_closed, last_packet,
                         setup_log>>
       \/ /\ link = "None"
          /\ link_result' = LinkResult("connect", LinkErr("Unhandled"))
          /\ setup_log' = <<SetupEvent("tcp_connect", "portmap", <<>>)>>
          /\ UNCHANGED <<link, link_id, max_recv_size, stream, last_xid,
                         inbound, peer_closed, last_packet>>
       \/ /\ link = "None"
          /\ \E ps \in PortReplies :
             \E po \in {ps.port} :
                \/ /\ po.kind # "Ok"
                   /\ link_result' = LinkResult("connect", po)
                   /\ setup_log' = PortSetup(ps)
                   /\ UNCHANGED <<link, link_id, max_recv_size, stream,
                                  last_xid, inbound, peer_closed, last_packet>>
                \/ /\ po.kind = "Ok"
                   /\ link_result' = LinkResult("connect", LinkErr("Unhandled"))
                   /\ setup_log' = Append(PortSetup(ps),
                                      SetupEvent("tcp_connect", "core", <<po.val>>))
                   /\ UNCHANGED <<link, link_id, max_recv_size, stream,
                                  last_xid, inbound, peer_closed, last_packet>>
                \/ /\ po.kind = "Ok"
                   /\ \E s \in LinkReplies :
                      \E o \in {s.link} :
                         /\ stream' = "Some"
                         /\ peer_closed' = FALSE
                         /\ inbound' = <<>>
                         /\ last_xid' = NextXid(0)
                         /\ last_packet' = create_link_packet
                         /\ setup_log' = PortSetup(ps)
                               \o << SetupEvent("tcp_connect", "core", <<po.val>>),
                                     SetupEvent("call", "core", create_link_packet) >>
                               \o (IF s.reply = <<>> THEN <<>>
                                   ELSE <<SetupEvent("reply", "core", s.reply)>>)
                         /\ link_result' = LinkResult("connect",
                                              IF o.kind = "Ok" THEN LinkOk(<<>>) ELSE o)
                         /\ IF o.kind = "Ok"
                            THEN /\ link' = "Some"
                                 /\ link_id' = o.val.lid
                                 /\ max_recv_size' = o.val.max_recv_size
                            ELSE UNCHANGED <<link, link_id, max_recv_size>>
    /\ op_data' = <<>>
    /\ op_index' = 0
    /\ op_result' = <<>>
    /\ dev_calls' = <<>>
    /\ read_replies' = <<>>
    /\ link_call' = NoCall
    /\ UNCHANGED <<link_pc, n_ops>>
    /\ UNCHANGED <<onc_pc, responses, onc_result, req_xid, sent_xids,
                   discarded, n_calls, n_returned, n_written, srv_sent,
                   frag_whole>>
    /\ UNCHANGED <<appVars, streamVars, xdrVars, concVars>>

\* ScpiVxiProtocol::disconnect (mod.rs:63-66): returns Ok(()), nothing else
VxiDisconnect ==
    /\ link_pc = "idle"
    /\ n_ops < MaxOps
    /\ link_result' = LinkResult("disconnect", LinkOk(<<>>))
    /\ op_data' = <<>>
    /\ op_index' = 0
    /\ op_result' = <<>>
    /\ dev_calls' = <<>>
    /\ read_replies' = <<>>
    /\ link_call' = NoCall
    /\ UNCHANGED <<link, link_id, max_recv_size, link_pc, n_ops, setup_log>>
    /\ UNCHANGED <<appVars, streamVars, xdrVars, oncVars, concVars>>

\* a recv_raw that answers with nothing read
UnsupportedAsEmpty == LinkOk(<<>>)

\* Err(Error::Unimplemented("TODO".into()))
Unsupported == LinkErr("Unimplemented")

\* ScpiVxiProtocol::recv_raw(_length, _timeout) (mod.rs:95-101)
VxiRecvRaw ==
    \E length \in {-1, READ_SIZE}, timeout \in {0} :
        /\ link_pc = "idle"
        /\ n_ops < MaxOps
        /\ link_result' = LinkResult("recv_raw", Unsupported)
        /\ dev_calls' = <<>>
        /\ read_replies' = <<>>
        /\ op_data' = <<>>
        /\ op_index' = 0
        /\ op_result' = <<>>
        /\ link_call' = NoCall
        /\ UNCHANGED <<link, link_id, max_recv_size, link_pc, n_ops, setup_log>>
        /\ UNCHANGED <<appVars, streamVars, xdrVars, oncVars, concVars>>

\* ScpiVxiProtocol::recv_until(_byte, _timeout) (mod.rs:103-105)
VxiRecvUntil ==
    \E byte \in {10}, timeout \in {0, LOCK_TIMEOUT} :
        /\ link_pc = "idle"
        /\ n_ops < MaxOps
        /\ link_result' = LinkResult("recv_until", Unsupported)
        /\ dev_calls' = <<>>
        /\ read_replies' = <<>>
        /\ op_data' = <<>>
        /\ op_index' = 0
        /\ op_result' = <<>>
        /\ link_call' = NoCall
        /\ UNCHANGED <<link, link_id, max_recv_size, link_pc, n_ops, setup_log>>
        /\ UNCHANGED <<appVars, streamVars, xdrVars, oncVars, concVars>>

\* the payloads handed to write
Payloads ==
    {[i \in 1..n |-> i] : n \in 0..MaxPayload}
        \cup {[i \in 1..n |-> 255] : n \in 1..MaxPayload}

\* ScpiVxiProtocol::int_send / VxiClientLink::write up to the first
\* write_packet: no link -> Err; n_chunks = data.len().div_ceil(max_recv_size)
\* divides by zero when max_recv_size is 0; no chunk -> Ok at once
LinkWrite ==
    \E data \in Payloads :
        /\ link_pc = "idle"
        /\ n_ops < MaxOps
        /\ n_ops' = n_ops + 1
        /\ dev_calls' = <<>>
        /\ read_replies' = <<>>
        /\ op_data' = data
        /\ op_index' = 0
        /\ op_result' = <<>>
        /\ IF link = "None"
           THEN /\ link_result' = LinkResult("write", LinkErr("Unspecified"))
                /\ link_pc' = "idle"
           ELSE IF max_recv_size = 0
           THEN /\ link_result' = LinkResult("write", LinkPanic)
                /\ link_pc' = "panicked"
           ELSE IF div_ceil(Len(data), max_recv_size) = 0
           THEN /\ link_result' = LinkResult("write", LinkOk(<<>>))
                /\ link_pc' = "idle"
           ELSE /\ link_result' = NoLinkResult
                /\ link_pc' = "writing"
        /\ link_call' = LinkCall("write", -1)
        /\ UNCHANGED <<link, link_id, max_recv_size, setup_log>>
        /\ UNCHANGED <<appVars, streamVars, xdrVars, oncVars, concVars>>

\* What one request of a link operation does to the ONC client and to the
\* transport, o being the outcome of the call
AfterRequest(o, rest) ==
    /\ inbound' = rest
    /\ last_xid' = IF o.kind = "panic" THEN last_xid ELSE NextXid(last_xid)

\* One iteration of the loop of write (mod.rs:180-183): write_packet of the
\* next chunk, from the lock of the client to the check of the reply
LinkWritePacket ==
    /\ link_pc = "writing"
    /\ \E chunk \in {Chunk(op_data, max_recv_size, op_index)} :
       \E req \in {DeviceWriteReq(chunk,
                     IsLast(op_index, div_ceil(Len(op_data), max_recv_size)))} :
          /\ dev_calls' = Append(dev_calls, req)
          /\ last_packet' = FramePacket(core_call_packet(last_xid,
                                DeviceWriteProc, pack_device_write(req)))
          /\ \E s \in (IF peer_closed THEN {Script(<<>>, <<>>)}
                       ELSE DeviceWriteScripts(last_xid, Len(chunk))) :
             \E r \in {read_response(inbound \o s.bytes, peer_closed, last_xid, <<>>)} :
             \E o \in {Decoded(r, unpack_device_write)} :
                /\ AfterRequest(o, r.inbound)
                /\ IF o.kind = "Ok"
                   THEN /\ op_index' = op_index + 1
                        /\ IF op_index + 1 = div_ceil(Len(op_data), max_recv_size)
                           THEN /\ link_result' = LinkResult("write", LinkOk(<<>>))
                                /\ link_pc' = "idle"
                           ELSE UNCHANGED <<link_result, link_pc>>
                   ELSE /\ link_result' = LinkResult("write", o)
                        /\ link_pc' = IF o.kind = "panic" THEN "panicked" ELSE "idle"
                        /\ UNCHANGED op_index
    /\ UNCHANGED <<link, link_id, max_recv_size, op_data, op_result,
                   read_replies, n_ops, link_call, setup_log>>
    /\ UNCHANGED <<stream, onc_pc, responses, onc_result, peer_closed, req_xid,
                   sent_xids, discarded, n_calls, n_returned, n_written,
                   srv_sent, frag_whole>>
    /\ UNCHANGED <<appVars, streamVars, xdrVars, concVars>>

\* VxiClientLink::recv up to the first recv_packet, entered through int_recv
\* by the call given: no link -> Err
RecvBegin(call) ==
    /\ link_pc = "idle"
    /\ n_ops < MaxOps
    /\ n_ops' = n_ops + 1
    /\ dev_calls' = <<>>
    /\ read_replies' = <<>>
    /\ op_data' = <<>>
    /\ op_index' = 0
    /\ op_result' = <<>>
    /\ link_call' = call
    /\ IF link = "None"
       THEN /\ link_result' = LinkResult(call.name, LinkErr("Unspecified"))
            /\ link_pc' = "idle"
       ELSE /\ link_result' = NoLinkResult
            /\ link_pc' = "receiving"
    /\ UNCHANGED <<link, link_id, max_recv_size, setup_log>>
    /\ UNCHANGED <<appVars, streamVars, xdrVars, oncVars, concVars>>

\* ScpiVxiProtocol::int_recv
LinkRecv == RecvBegin(LinkCall("recv", -1))

\* ScpiVxiProtocol::flush_rx(_timeout): self.int_recv().await?, the timeout
\* is not used
VxiFlushRx ==
    \E timeout \in {0} : RecvBegin(LinkCall("flush_rx", timeout))

\* a flush_rx that hands the data on
DiscardNothing(data) == data

\* flush_rx drops the value of int_recv and returns Ok(())
Discard(data) == <<>>

\* what the call returns when recv has returned o
RecvReturn(call, o) ==
    IF call.name = "flush_rx"
    THEN LinkResult("flush_rx", IF o.kind = "Ok" THEN LinkOk(Discard(o.val)) ELSE o)
    ELSE LinkResult("recv", o)

\* One iteration of the loop of recv (mod.rs:228-234): recv_packet, from the
\* lock of the client to the check of the reply, and the append of its data
LinkRecvPacket ==
    /\ link_pc = "receiving"
    /\ dev_calls' = Append(dev_calls, DeviceReadReq)
    /\ last_packet' = FramePacket(core_call_packet(last_xid, DeviceReadProc,
                          pack_device_read(DeviceReadReq)))
    /\ \E s \in (IF peer_closed THEN {Script(<<>>, <<>>)}
                 ELSE {t \in DeviceReadScripts(last_xid) :
                         Len(read_replies) + 1 >= MaxReads
                             => (t.reply # <<>> => t.reply[1].reason \in EndReasons)}) :
       \E r \in {read_response(inbound \o s.bytes, peer_closed, last_xid, <<>>)} :
       \E o \in {Decoded(r, unpack_device_read)} :
          /\ AfterRequest(o, r.inbound)
          /\ read_replies' = read_replies \o s.reply
          /\ IF o.kind = "Ok"
             THEN /\ op_result' = op_result \o o.val.data
                  /\ IF o.val.end
                     THEN /\ link_result' =
                                RecvReturn(link_call, LinkOk(op_result \o o.val.data))
                          /\ link_pc' = "idle"
                     ELSE UNCHANGED <<link_result, link_pc>>
             ELSE /\ link_result' = RecvReturn(link_call, o)
                  /\ link_pc' = IF o.kind = "panic" THEN "panicked" ELSE "idle"
                  /\ UNCHANGED op_result
    /\ UNCHANGED <<link, link_id, max_recv_size, op_data, op_index, n_ops,
                   link_call, setup_log>>
    /\ UNCHANGED <<stream, onc_pc, responses, onc_result, peer_closed, req_xid,
                   sent_xids, discarded, n_calls, n_returned, n_written,
                   srv_sent, frag_whole>>
    /\ UNCHANGED <<appVars, streamVars, xdrVars, concVars>>

\* the peer closes the stream of the core client
LinkPeerClose ==
    /\ stream = "Some"
    /\ ~peer_closed
    /\ link_pc # "panicked"
    /\ peer_closed' = TRUE
    /\ UNCHANGED <<stream, last_xid, onc_pc, responses, onc_result, inbound,
                   last_packet, req_xid, sent_xids, discarded, n_calls,
                   n_returned, n_written, srv_sent, frag_whole>>
    /\ UNCHANGED <<appVars, streamVars, xdrVars, linkVars, concVars>>

NextLink ==
    \/ VxiConnect
    \/ VxiDisconnect
    \/ LinkWrite
    \/ LinkWritePacket
    \/ LinkRecv
    \/ LinkRecvPacket
    \/ VxiFlushRx
    \/ VxiRecvRaw
    \/ VxiRecvUntil
    \/ LinkPeerClose

-----------------------------------------------------------------------------
(* Tasks that run link operations over one shared ONC client:             *)
(* the Mutex<OncClient> of mod.rs:117 and the Mutex<TcpStream> of onc.rs:21 *)

Tasks == 1..NTasks

\* a lock that lets every caller in
LockFreeAlways(owner) == TRUE

\* tokio::sync::Mutex::lock completes only when no guard is alive
LockFree(owner) == owner = 0

\* a guard that is leaked (mem::forget): the mutex keeps its owner
Leaked(owner) == owner

\* a MutexGuard goes out of scope, on return, on `?` or while a panic
\* unwinds: the mutex has no owner
Dropped(owner) == 0

\* the CALL each link operation sends: its procedure and packed arguments
TaskCall(op) ==
    CASE op = "write" -> <<DeviceWriteProc,
                           pack_device_write(DeviceWriteReq(<<42, 10>>, TRUE))>>
      [] op = "recv"  -> <<DeviceReadProc, pack_device_read(DeviceReadReq)>>
      [] OTHER        -> <<CreateLinkProc, pack_create_link(CreateLinkReq)>>

\* the tasks whose CALL is written and whose read_response has not returned
Outstanding == {t \in Tasks : task_pc[t] = "reading"}

WireEvent(ev, t, xid) == [ev |-> ev, task |-> t, xid |-> xid]

InitConc ==
    /\ client_lock = 0
    /\ stream_lock = 0
    /\ task_pc = [t \in Tasks |-> "idle"]
    /\ task_op = [t \in Tasks |-> "none"]
    /\ wire_log = <<>>
    /\ n_task_ops = 0

\* VxiClient::connect (mod.rs:264-276), before the client is shared: a new
\* OncClient (last_xid 0) whose TCP connect succeeds or fails
ConcConnect ==
    /\ stream = "None"
    /\ \A t \in Tasks : task_pc[t] = "idle"
    /\ \/ stream' = "Some" /\ last_xid' = 0
       \/ UNCHANGED <<stream, last_xid>>
    /\ UNCHANGED <<onc_pc, responses, onc_result, inbound, peer_closed,
                   last_packet, req_xid, sent_xids, discarded, n_calls,
                   n_returned, n_written, srv_sent, frag_whole>>
    /\ UNCHANGED <<appVars, streamVars, xdrVars, linkVars, concVars>>

\* a task enters write_packet, recv_packet or create_link and reaches
\* onc_client.lock().await (mod.rs:153, 205, 282)
TaskStart(t) ==
    \E op \in {"write", "recv", "create_link"} :
        /\ task_pc[t] = "idle"
        /\ n_task_ops < MaxTaskOps
        /\ n_task_ops' = n_task_ops + 1
        /\ task_pc' = [task_pc EXCEPT ![t] = "waiting"]
        /\ task_op' = [task_op EXCEPT ![t] = op]
        /\ UNCHANGED <<client_lock, stream_lock, wire_log>>
        /\ UNCHANGED <<appVars, streamVars, xdrVars, oncVars, linkVars>>

\* the lock of the client is granted to the task
TaskLockClient(t) ==
    /\ task_pc[t] = "waiting"
    /\ LockFree(client_lock)
    /\ client_lock' = t
    /\ task_pc' = [task_pc EXCEPT ![t] = "locked"]
    /\ UNCHANGED <<stream_lock, task_op, wire_log, n_task_ops>>
    /\ UNCHANGED <<appVars, streamVars, xdrVars, oncVars, linkVars>>

\* gen_call_packet and OncClient::request up to the first await of
\* read_response (onc.rs:50-67): no stream -> Err, the guard of the client is
\* dropped on return; else the lock of the stream is taken and the CALL is
\* written, or write_all fails and both guards are dropped
TaskWriteCall(t) ==
    /\ task_pc[t] = "locked"
    /\ \/ /\ stream = "None"
          /\ task_pc' = [task_pc EXCEPT ![t] = "idle"]
          /\ client_lock' = Dropped(client_lock)
          /\ UNCHANGED <<stream_lock, wire_log, last_packet, responses>>
       \/ /\ stream = "Some"
          /\ LockFree(stream_lock)
          /\ task_pc' = [task_pc EXCEPT ![t] = "idle"]
          /\ client_lock' = Dropped(client_lock)
          /\ UNCHANGED <<stream_lock, wire_log, last_packet, responses>>
       \/ /\ stream = "Some"
          /\ LockFree(stream_lock)
          /\ stream_lock' = t
          /\ last_packet' = FramePacket(core_call_packet(last_xid,
                                TaskCall(task_op[t])[1], TaskCall(task_op[t])[2]))
          /\ wire_log' = Append(wire_log, WireEvent("call", t, last_xid))
          /\ responses' = <<>>
          /\ task_pc' = [task_pc EXCEPT ![t] = "reading"]
          /\ UNCHANGED client_lock
    /\ task_op' = IF task_pc'[t] = "idle"
                  THEN [task_op EXCEPT ![t] = "none"] ELSE task_op
    /\ UNCHANGED n_task_ops
    /\ UNCHANGED <<stream, last_xid, onc_pc, onc_result, inbound, peer_closed,
                   req_xid, sent_xids, discarded, n_calls, n_returned,
                   n_written, srv_sent, frag_whole>>
    /\ UNCHANGED <<appVars, streamVars, xdrVars, linkVars>>

\* one iteration of the loop of read_response for the task (onc.rs:77-93);
\* when the loop ends, last_xid += 1 and request returns, which drops the
\* guard of the stream; a panic unwinds the task and drops both guards
TaskReadRecord(t) ==
    /\ task_pc[t] = "reading"
    /\ \E r \in {ReadOne(inbound, peer_closed, last_xid, responses)} :
          /\ r.status # "block"
          /\ inbound' = r.inbound
          /\ responses' = r.responses
          /\ IF r.status = "continue"
             THEN UNCHANGED <<task_pc, stream_lock, client_lock, last_xid, wire_log>>
             ELSE /\ stream_lock' = Dropped(stream_lock)
                  /\ wire_log' = Append(wire_log, WireEvent("done", t, last_xid))
                  /\ IF r.status = "panic"
                     THEN /\ task_pc' = [task_pc EXCEPT ![t] = "panicked"]
                          /\ client_lock' = Dropped(client_lock)
                          /\ UNCHANGED last_xid
                     ELSE /\ task_pc' = [task_pc EXCEPT ![t] = "returned"]
                          /\ last_xid' = NextXid(last_xid)
                          /\ UNCHANGED client_lock
    /\ UNCHANGED <<task_op, n_task_ops>>
    /\ UNCHANGED <<stream, onc_pc, onc_result, peer_closed, last_packet,
                   req_xid, sent_xids, discarded, n_calls, n_returned,
                   n_written, srv_sent, frag_whole>>
    /\ UNCHANGED <<appVars, streamVars, xdrVars, linkVars>>

\* the link operation decodes the reply and returns: the guard of the client
\* is dropped (end of write_packet, recv_packet, create_link)
TaskReturn(t) ==
    /\ task_pc[t] = "returned"
    /\ client_lock' = Dropped(client_lock)
    /\ task_pc' = [task_pc EXCEPT ![t] = "idle"]
    /\ task_op' = [task_op EXCEPT ![t] = "none"]
    /\ UNCHANGED <<stream_lock, wire_log, n_task_ops>>
    /\ UNCHANGED <<appVars, streamVars, xdrVars, oncVars, linkVars>>

\* the peer answers a CALL it has received with one reply record, for the
\* xid awaited or for the next one, whole or shorter than a message
ConcServerSend ==
    \E xid \in PeerXids, short \in BOOLEAN :
        /\ stream = "Some"
        /\ ~peer_closed
        /\ Outstanding # {}
        /\ inbound = <<>>
        /\ short => xid = last_xid
        /\ srv_sent < MaxRecords
        /\ srv_sent' = srv_sent + 1
        /\ inbound' = Record(TRUE, IF short THEN <<0, 1>>
                                   ELSE SuccessReply(xid, Words2(NoError, 1)))
        /\ UNCHANGED <<stream, last_xid, onc_pc, responses, onc_result,
                       peer_closed, last_packet, req_xid, sent_xids, discarded,
                       n_calls, n_returned, n_written, frag_whole>>
        /\ UNCHANGED <<appVars, streamVars, xdrVars, linkVars, concVars>>

\* a turn of the loop of read_response of the task, by what it needs and
\* what it may change: a whole record or the end of the stream to read; bytes
\* leave the stream, or the loop ends
ConcReadTurn ==
    \E t \in Tasks :
        /\ task_pc[t] = "reading"
        /\ CanRead
        /\ \E pc \in {"reading", "returned", "panicked"} :
              task_pc' = [task_pc EXCEPT ![t] = pc]
        /\ \E k \in 0..Len(inbound) : inbound' = Drop(inbound, k)
        /\ inbound' # inbound \/ task_pc' # task_pc

NextConc ==
    \/ ConcConnect
    \/ \E t \in Tasks : TaskStart(t)
    \/ \E t \in Tasks : TaskLockClient(t)
    \/ \E t \in Tasks : TaskWriteCall(t)
    \/ \E t \in Tasks : TaskReadRecord(t)
    \/ \E t \in Tasks : TaskReturn(t)
    \/ ConcServerSend
    \/ LinkPeerClose

-----------------------------------------------------------------------------
(* Stream transports: protocol/scpi_tcp.rs (ScpiTcpProtocol) and           *)
(* protocol/scpi_serial.rs (ScpiSerialProtocol).  The two have the same    *)
(* code but for the stream type, and flush_rx is written for serial only.  *)
(* Time is the instants 0..MaxTime.  A read takes the bytes that are there *)
(* before the clock advances, and a byte that arrives at the very instant  *)
(* of a deadline counts as arriving after it.                              *)

\* Option::None of a length, a timeout or an instant
NoValue == -1

\* the bytes of the peer: LF and 'A'
StreamBytes == {10, 65}

\* the timeouts and the lengths the callers pass
Timeouts == 0..MaxTime
RawLens == 0..MaxStreamBytes

StArg(len, timeout, byte) ==
    [len |-> len, timeout |-> timeout, byte |-> byte, start |-> now]
NoArg == [len |-> NoValue, timeout |-> NoValue, byte |-> NoValue, start |-> 0]

\* what a call returned, with the arguments it had, the bytes it read from
\* the stream, the instant it returned, the stream and the number of
\* connections opened when it was made, and, when its last step began, the
\* number of bytes unread and the instant of the last arrival
StResult(op, kind, err, val, arg, taken) ==
    [op |-> op, kind |-> kind, err |-> err, val |-> val, arg |-> arg,
     taken |-> taken, at |-> now, was |-> st_stream, opens |-> st_opens,
     pending |-> Len(st_inbound), last_rx |-> st_last_rx]
NoStResult ==
    [op |-> "none", kind |-> "none", err |-> "", val |-> <<>>, arg |-> NoArg,
     taken |-> <<>>, at |-> 0, was |-> "None", opens |-> 0,
     pending |-> 0, last_rx |-> NoValue]

InitStream ==
    /\ st_kind = "none"
    /\ st_stream = "None"
    /\ st_pc = "idle"
    /\ st_arg = NoArg
    /\ st_buf = <<>>
    /\ st_deadline = NoValue
    /\ st_result = NoStResult
    /\ st_inbound = <<>>
    /\ st_closed = FALSE
    /\ now = 0
    /\ st_taken = <<>>
    /\ st_last_rx = NoValue
    /\ st_opens = 0
    /\ st_sent = 0
    /\ st_ops = 0

\* scpi_from_uri constructs the transport of the scheme of the URI:
\* ScpiTcpProtocol::new or ScpiSerialProtocol::new, stream None
StreamNew ==
    /\ st_kind = "none"
    /\ st_kind' \in {"tcp", "serial"}
    /\ UNCHANGED <<st_stream, st_pc, st_arg, st_buf, st_deadline, st_result,
                   st_inbound, st_closed, now, st_taken, st_last_rx, st_opens,
                   st_sent, st_ops>>
    /\ UNCHANGED <<appVars, xdrVars, oncVars, linkVars, concVars>>

\* a connect that never finds a stream
AlreadyConnectedNever(s) == FALSE

\* self.stream.is_some() / self.serial.is_some()
AlreadyConnected(s) == s = "Some"

\* a call returns at once: nothing read, no call in progress
StReturn(op, kind, err, val, arg) ==
    /\ st_result' = StResult(op, kind, err, val, arg, <<>>)
    /\ st_pc' = "idle"
    /\ st_arg' = NoArg
    /\ st_buf' = <<>>
    /\ st_taken' = <<>>
    /\ st_deadline' = NoValue

\* a call starts to wait on the stream
StBegin(pc, arg) ==
    /\ st_result' = NoStResult
    /\ st_pc' = pc
    /\ st_arg' = arg
    /\ st_buf' = <<>>
    /\ st_taken' = <<>>
    /\ st_deadline' = IF arg.timeout = NoValue THEN NoValue ELSE now + arg.timeout

\* a call in progress returns
StEnd(op, kind, err, val, taken) ==
    /\ st_result' = StResult(op, kind, err, val, st_arg, taken)
    /\ st_pc' = "idle"
    /\ st_arg' = NoArg
    /\ st_buf' = <<>>
    /\ st_taken' = <<>>
    /\ st_deadline' = NoValue

\* Protocol::connect: refused when a stream is held; else the stream is
\* opened, or the open fails and the transport stays without a stream
StreamConnect ==
    /\ st_kind # "none"
    /\ st_pc = "idle"
    /\ \/ /\ AlreadyConnected(st_stream)
          /\ StReturn("connect", "Err", "Unspecified", <<>>, NoArg)
          /\ UNCHANGED <<st_stream, st_inbound, st_closed, st_opens, st_sent,
                         st_last_rx>>
       \/ /\ ~AlreadyConnected(st_stream)
          /\ st_opens < MaxOpens
          /\ StReturn("connect", "Ok", "", <<>>, NoArg)
          /\ st_stream' = "Some"
          /\ st_opens' = st_opens + 1
          /\ st_inbound' = <<>>
          /\ st_closed' = FALSE
          /\ st_last_rx' = NoValue
          /\ UNCHANGED st_sent
       \/ /\ ~AlreadyConnected(st_stream)
          /\ StReturn("connect", "Err", "Unhandled", <<>>, NoArg)
          /\ UNCHANGED <<st_stream, st_inbound, st_closed, st_opens, st_sent,
                         st_last_rx>>
    /\ UNCHANGED <<st_kind, now, st_ops>>
    /\ UNCHANGED <<appVars, xdrVars, oncVars, linkVars, concVars>>

\* Protocol::disconnect: self.stream.take(), which drops the stream
StreamDisconnect ==
    /\ st_kind # "none"
    /\ st_pc = "idle"
    /\ StReturn("disconnect", "Ok", "", <<>>, NoArg)
    /\ st_stream' = "None"
    /\ st_inbound' = <<>>
    /\ st_closed' = FALSE
    /\ st_last_rx' = NoValue
    /\ UNCHANGED <<st_kind, now, st_opens, st_sent, st_ops>>
    /\ UNCHANGED <<appVars, xdrVars, oncVars, linkVars, concVars>>

\* recv_raw up to its first read: no stream -> Unspecified; no length ->
\* Unimplemented; else read_exact into vec![0; length] starts, under
\* tokio::time::timeout when a timeout is given
StreamRecvRaw ==
    \E len \in {NoValue} \cup RawLens, timeout \in {NoValue} \cup Timeouts :
        /\ st_kind # "none"
        /\ st_pc = "idle"
        /\ st_ops < MaxStreamOps
        /\ st_ops' = st_ops + 1
        /\ IF st_stream = "None"
           THEN StReturn("recv_raw", "Err", "Unspecified", <<>>,
                         StArg(len, timeout, NoValue))
           ELSE IF len = NoValue
           THEN StReturn("recv_raw", "Err", "Unimplemented", <<>>,
                         StArg(len, timeout, NoValue))
           ELSE StBegin("raw", StArg(len, timeout, NoValue))
        /\ UNCHANGED <<st_kind, st_stream, st_inbound, st_closed, now,
                       st_last_rx, st_opens, st_sent>>
        /\ UNCHANGED <<appVars, xdrVars, oncVars, linkVars, concVars>>

Min(a, b) == IF a < b THEN a ELSE b

\* read_exact goes on (scpi_tcp.rs:100-107): it takes the bytes that are
\* there; with the buffer full recv_raw returns Ok(resp).  At the end of the
\* stream read_exact returns an error: without a timeout `?` returns it;
\* under timeout(..).await.is_err() only the expiry is looked at, the error
\* of read_exact is not, and Ok(resp) is returned with the rest of resp
\* still zero.  At the deadline the timeout expires: Timeout, resp dropped.
StreamRawStep ==
    /\ st_pc = "raw"
    /\ \E need \in {st_arg.len - Len(st_buf)} :
       \E k \in {Min(need, Len(st_inbound))} :
          \/ /\ k > 0 \/ need = 0
             /\ st_inbound' = Drop(st_inbound, k)
             /\ IF k = need
                THEN StEnd("recv_raw", "Ok", "", st_buf \o Take(st_inbound, k),
                           st_taken \o Take(st_inbound, k))
                ELSE /\ st_buf' = st_buf \o Take(st_inbound, k)
                     /\ st_taken' = st_taken \o Take(st_inbound, k)
                     /\ UNCHANGED <<st_pc, st_arg, st_deadline, st_result>>
          \/ /\ k = 0 /\ need > 0
             /\ st_closed
             /\ IF st_arg.timeout = NoValue
                THEN StEnd("recv_raw", "Err", "IoError", <<>>, st_taken)
                ELSE StEnd("recv_raw", "Ok", "", st_buf \o Zeros(need), st_taken)
             /\ UNCHANGED st_inbound
          \/ /\ k = 0 /\ need > 0
             /\ ~st_closed
             /\ st_deadline # NoValue /\ now >= st_deadline
             /\ StEnd("recv_raw", "Err", "Timeout", <<>>, st_taken)
             /\ UNCHANGED st_inbound
    /\ UNCHANGED <<st_kind, st_stream, st_closed, now, st_last_rx, st_opens,
                   st_sent, st_ops>>
    /\ UNCHANGED <<appVars, xdrVars, oncVars, linkVars, concVars>>

\* recv_until up to its loop: no stream -> Unspecified; else
\* end = Instant::now() + timeout
StreamRecvUntil ==
    \E byte \in StreamBytes, timeout \in Timeouts :
        /\ st_kind # "none"
        /\ st_pc = "idle"
        /\ st_ops < MaxStreamOps
        /\ st_ops' = st_ops + 1
        /\ IF st_stream = "None"
           THEN StReturn("recv_until", "Err", "Unspecified", <<>>,
                         StArg(NoValue, timeout, byte))
           ELSE StBegin("until", StArg(NoValue, timeout, byte))
        /\ UNCHANGED <<st_kind, st_stream, st_inbound, st_closed, now,
                       st_last_rx, st_opens, st_sent>>
        /\ UNCHANGED <<appVars, xdrVars, oncVars, linkVars, concVars>>

\* a test that takes every byte for the one awaited
IsMatchAlways(res, byte) == TRUE

\* res == byte (scpi_tcp.rs:133)
IsMatch(res, byte) == res = byte

\* one iteration of the loop of recv_until (scpi_tcp.rs:121-138)
StreamUntilStep ==
    /\ st_pc = "until"
    /\ IF now >= st_deadline
       THEN /\ StEnd("recv_until", "Err", "Timeout", <<>>, st_taken)
            /\ UNCHANGED st_inbound
       ELSE IF st_inbound # <<>>
       THEN /\ st_inbound' = Tail(st_inbound)
            /\ IF IsMatch(Head(st_inbound), st_arg.byte)
               THEN StEnd("recv_until", "Ok", "", Append(st_buf, Head(st_inbound)),
                          Append(st_taken, Head(st_inbound)))
               ELSE /\ st_buf' = Append(st_buf, Head(st_inbound))
                    /\ st_taken' = Append(st_taken, Head(st_inbound))
                    /\ UNCHANGED <<st_pc, st_arg, st_deadline, st_result>>
       ELSE /\ st_closed
            /\ StEnd("recv_until", "Err", "IoError", <<>>, st_taken)
            /\ UNCHANGED st_inbound
    /\ UNCHANGED <<st_kind, st_stream, st_closed, now, st_last_rx, st_opens,
                   st_sent, st_ops>>
    /\ UNCHANGED <<appVars, xdrVars, oncVars, linkVars, concVars>>

\* ScpiSerialProtocol::flush_rx up to its loop: no stream -> Unspecified;
\* else end = Instant::now() + timeout
StreamFlushRx ==
    \E timeout \in Timeouts :
        /\ st_kind = "serial"
        /\ st_pc = "idle"
        /\ st_ops < MaxStreamOps
        /\ st_ops' = st_ops + 1
        /\ IF st_stream = "None"
           THEN StReturn("flush_rx", "Err", "Unspecified", <<>>,
                         StArg(NoValue, timeout, NoValue))
           ELSE StBegin("flush", StArg(NoValue, timeout, NoValue))
        /\ UNCHANGED <<st_kind, st_stream, st_inbound, st_closed, now,
                       st_last_rx, st_opens, st_sent>>
        /\ UNCHANGED <<appVars, xdrVars, oncVars, linkVars, concVars>>

\* one iteration of the loop of flush_rx (scpi_serial.rs:201-217): break at
\* `end`, else one byte is read and dropped
StreamFlushStep ==
    /\ st_pc = "flush"
    /\ IF now >= st_deadline
       THEN /\ StEnd("flush_rx", "Ok", "", <<>>, st_taken)
            /\ UNCHANGED st_inbound
       ELSE IF st_inbound # <<>>
       THEN /\ st_inbound' = Tail(st_inbound)
            /\ st_taken' = Append(st_taken, Head(st_inbound))
            /\ UNCHANGED <<st_pc, st_arg, st_buf, st_deadline, st_result>>
       ELSE /\ st_closed
            /\ StEnd("flush_rx", "Err", "IoError", <<>>, st_taken)
            /\ UNCHANGED st_inbound
    /\ UNCHANGED <<st_kind, st_stream, st_closed, now, st_last_rx, st_opens,
                   st_sent, st_ops>>
    /\ UNCHANGED <<appVars, xdrVars, oncVars, linkVars, concVars>>

\* the call in progress has reached its deadline
AtDeadline == st_pc # "idle" /\ st_deadline # NoValue /\ now >= st_deadline

\* the peer sends one byte
StreamPeerSend ==
    \E b \in StreamBytes :
        /\ st_stream = "Some"
        /\ ~st_closed
        /\ ~AtDeadline
        /\ st_sent < MaxStreamBytes
        /\ st_sent' = st_sent + 1
        /\ st_inbound' = Append(st_inbound, b)
        /\ st_last_rx' = now
        /\ UNCHANGED <<st_kind, st_stream, st_pc, st_arg, st_buf, st_deadline,
                       st_result, st_closed, now, st_taken, st_opens, st_ops>>
        /\ UNCHANGED <<appVars, xdrVars, oncVars, linkVars, concVars>>

\* the peer closes the stream
StreamPeerClose ==
    /\ st_stream = "Some"
    /\ ~st_closed
    /\ ~AtDeadline
    /\ st_closed' = TRUE
    /\ UNCHANGED <<st_kind, st_stream, st_pc, st_arg, st_buf, st_deadline,
                   st_result, st_inbound, now, st_taken, st_last_rx, st_opens,
                   st_sent, st_ops>>
    /\ UNCHANGED <<appVars, xdrVars, oncVars, linkVars, concVars>>

\* the clock advances while a call waits for bytes and has not reached its
\* deadline (the clock is read by calls in progress only, so the time that
\* passes between calls is left out)
Tick ==
    /\ now < MaxTime
    /\ st_pc # "idle"
    /\ ~AtDeadline
    /\ st_inbound = <<>>
    /\ ~st_closed
    /\ now' = now + 1
    /\ UNCHANGED <<st_kind, st_stream, st_pc, st_arg, st_buf, st_deadline,
                   st_result, st_inbound, st_closed, st_taken, st_last_rx,
                   st_opens, st_sent, st_ops>>
    /\ UNCHANGED <<appVars, xdrVars, oncVars, linkVars, concVars>>

NextStream ==
    \/ StreamNew
    \/ StreamConnect
    \/ StreamDisconnect
    \/ StreamRecvRaw
    \/ StreamRawStep
    \/ StreamRecvUntil
    \/ StreamUntilStep
    \/ StreamFlushRx
    \/ StreamFlushStep
    \/ StreamPeerSend
    \/ StreamPeerClose
    \/ Tick

-----------------------------------------------------------------------------
(* The ScpiProtocol facade: protocol/scpi.rs (impl dyn ScpiProtocol), over  *)
(* int_send, int_recv and int_query of the three transports                *)
(* (scpi_tcp.rs, scpi_serial.rs, vxi11/mod.rs).  The stream transports     *)
(* read through a BufReader made anew by each int_recv.                    *)

\* the byte sequences handed to send and query: over '*' and '\n'
ScpiData == SeqsUpTo({42, 10}, MaxScpiLen)

\* data with '\n' alone appended
TerminatedLf(data) == data \o <<10>>

\* scpi.rs:33-35, 40-42: data.to_vec() with b"\r\n" appended
Terminated(data) == data \o <<13, 10>>

\* one call on the transport, in the order the facade made it
ScpiEvent(ev, data) == [ev |-> ev, data |-> data]

InitScpi ==
    /\ sc_kind = "none"
    /\ sc_open = FALSE
    /\ sc_max = 0
    /\ sc_pc = "idle"
    /\ sc_call = ScpiEvent("none", <<>>)
    /\ sc_log = <<>>
    /\ sc_wire = <<>>
    /\ sc_dev = <<>>
    /\ sc_sent = NoLinkResult
    /\ sc_resp = <<>>
    /\ sc_taken = <<>>
    /\ sc_inbound = <<>>
    /\ sc_closed = FALSE
    /\ sc_result = NoLinkResult
    /\ sc_ops = 0

\* The transport the facade runs over: a ScpiTcpProtocol or a
\* ScpiSerialProtocol with or without its stream, or a ScpiVxiProtocol with
\* or without its link, the link with the max_recv_size of its CreateLink
ScpiOpen ==
    \E kind \in {"tcp", "serial", "vxi"}, open \in BOOLEAN, max \in 0..MaxRecvSize :
        /\ sc_kind = "none"
        /\ kind # "vxi" \/ ~open => max = 0
        /\ sc_kind' = kind
        /\ sc_open' = open
        /\ sc_max' = max
        /\ UNCHANGED <<sc_pc, sc_call, sc_log, sc_wire, sc_dev, sc_sent, sc_resp,
                       sc_taken, sc_inbound, sc_closed, sc_result, sc_ops>>
        /\ UNCHANGED <<xdrVars, oncVars, linkVars, concVars, streamVars, fnVars, drvVars>>

\* What int_send does on a stream transport, as the bytes that reach the
\* stream and what it returns (scpi_tcp.rs:57-68, scpi_serial.rs:57-75): no
\* stream -> Unspecified; write_all writes all of data, or fails after a
\* part of it -> Unhandled
StreamSends(data) ==
    IF ~sc_open THEN {[wire |-> <<>>, dev |-> <<>>, out |-> LinkErr("Unspecified")]}
    ELSE {[wire |-> data, dev |-> <<>>, out |-> LinkOk(<<>>)]}
         \cup {[wire |-> SubSeq(data, 1, k), dev |-> <<>>, out |-> LinkErr("Unhandled")]
                 : k \in 0..(Len(data) - 1)}

\* the DeviceWrite requests of the chunks 0..last of data (mod.rs:178-183)
WriteCalls(data, last) ==
    [i \in 1..(last + 1) |->
        DeviceWriteReq(Chunk(data, sc_max, i - 1),
                       IsLast(i - 1, div_ceil(Len(data), sc_max)))]

\* What int_send does on the VXI transport (mod.rs:74-80, 178-186): no link
\* -> Unspecified; div_ceil by a max_recv_size of 0 panics; else one
\* write_packet per chunk, up to the first that fails
VxiSends(data) ==
    IF ~sc_open THEN {[wire |-> <<>>, dev |-> <<>>, out |-> LinkErr("Unspecified")]}
    ELSE IF sc_max = 0 THEN {[wire |-> <<>>, dev |-> <<>>, out |-> LinkPanic]}
    ELSE IF Len(data) = 0 THEN {[wire |-> <<>>, dev |-> <<>>, out |-> LinkOk(<<>>)]}
    ELSE {[wire |-> <<>>,
           dev |-> WriteCalls(data, div_ceil(Len(data), sc_max) - 1),
           out |-> LinkOk(<<>>)]}
         \cup {[wire |-> <<>>, dev |-> WriteCalls(data, f), out |-> LinkErr(e)]
                 : f \in 0..(div_ceil(Len(data), sc_max) - 1),
                   e \in {"Unspecified", "IoError"}}

int_send(data) == IF sc_kind = "vxi" THEN VxiSends(data) ELSE StreamSends(data)

\* a query that reads whatever its send returned
AfterSendAlways(o) == "int_recv"

\* int_query (scpi_tcp.rs:86-89, scpi_serial.rs:100-103, mod.rs:90-93):
\* self.int_send(data).await?; self.int_recv().await
AfterSend(o) == IF o.kind = "Ok" THEN "int_recv" ELSE "return"

\* no call of the facade is running
ScpiReady ==
    /\ sc_kind # "none"
    /\ sc_pc = "idle"
    /\ sc_ops < MaxScpiOps

\* the bookkeeping of a call that begins
ScpiCall(name, data) ==
    /\ sc_ops' = sc_ops + 1
    /\ sc_call' = ScpiEvent(name, data)
    /\ sc_resp' = <<>>
    /\ sc_taken' = <<>>
    /\ UNCHANGED <<sc_kind, sc_open, sc_max, sc_inbound, sc_closed>>
    /\ UNCHANGED <<xdrVars, oncVars, linkVars, concVars, streamVars, fnVars, drvVars>>

\* send (scpi.rs:32-37): int_send of the data with CR LF
ScpiSend ==
    /\ ScpiReady
    /\ \E data \in ScpiData :
       \E s \in int_send(Terminated(data)) :
            /\ ScpiCall("send", data)
            /\ sc_log' = <<ScpiEvent("int_send", Terminated(data))>>
            /\ sc_wire' = s.wire
            /\ sc_dev' = s.dev
            /\ sc_sent' = LinkResult("int_send", s.out)
            /\ sc_result' = LinkResult("send", s.out)
            /\ sc_pc' = IF s.out.kind = "panic" THEN "panicked" ELSE "idle"

\* what int_recv does before it reads: no stream or no link -> Unspecified
\* (scpi_tcp.rs:71-75, scpi_serial.rs:78-82, mod.rs:83-86)
RecvStart(name) ==
    IF sc_open
    THEN sc_pc' = "receiving" /\ sc_result' = NoLinkResult
    ELSE sc_pc' = "idle" /\ sc_result' = LinkResult(name, LinkErr("Unspecified"))

\* query (scpi.rs:39-44): int_query of the data with CR LF, up to the point
\* where its int_recv waits for the transport
ScpiQuery ==
    /\ ScpiReady
    /\ \E data \in ScpiData :
       \E s \in int_send(Terminated(data)) :
            /\ ScpiCall("query", data)
            /\ sc_wire' = s.wire
            /\ sc_dev' = s.dev
            /\ sc_sent' = LinkResult("int_send", s.out)
            /\ IF AfterSend(s.out) = "int_recv"
               THEN /\ sc_log' = <<ScpiEvent("int_send", Terminated(data)),
                                   ScpiEvent("int_recv", <<>>)>>
                    /\ RecvStart("query")
               ELSE /\ sc_log' = <<ScpiEvent("int_send", Terminated(data))>>
                    /\ sc_result' = LinkResult("query", s.out)
                    /\ sc_pc' = IF s.out.kind = "panic" THEN "panicked" ELSE "idle"

\* recv (scpi.rs:60-62): int_recv, up to the point where it waits
ScpiRecv ==
    /\ ScpiReady
    /\ ScpiCall("recv", <<>>)
    /\ sc_log' = <<ScpiEvent("int_recv", <<>>)>>
    /\ sc_wire' = <<>>
    /\ sc_dev' = <<>>
    /\ sc_sent' = NoLinkResult
    /\ RecvStart("recv")

\* the index of the first byte b of s, 0 when s has none
FirstIndex(s, b) ==
    IF \E i \in 1..Len(s) : s[i] = b
    THEN CHOOSE i \in 1..Len(s) : s[i] = b /\ \A j \in 1..(i - 1) : s[j] # b
    ELSE 0

\* One turn of the loop of read_until(b'\n', &mut resp) on the BufReader of
\* int_recv (scpi_tcp.rs:77-83, scpi_serial.rs:84-97): fill_buf takes what
\* one read of the stream gives; with a '\n' in it, the bytes up to the '\n'
\* go to resp and the call returns, and the BufReader is dropped with the
\* bytes after it; without one, all go to resp.  A read of no byte is the
\* end of the stream: the call returns Ok with resp as it is.
ScpiReadUntil ==
    /\ sc_pc = "receiving"
    /\ sc_kind \in {"tcp", "serial"}
    /\ \/ /\ Len(sc_inbound) > 0
          /\ \E k \in 1..Len(sc_inbound) :
             \E n \in {FirstIndex(SubSeq(sc_inbound, 1, k), 10)} :
                /\ sc_inbound' = SubSeq(sc_inbound, k + 1, Len(sc_inbound))
                /\ sc_taken' = sc_taken \o SubSeq(sc_inbound, 1, k)
                /\ IF n = 0
                   THEN /\ sc_resp' = sc_resp \o SubSeq(sc_inbound, 1, k)
                        /\ UNCHANGED <<sc_pc, sc_result>>
                   ELSE /\ sc_resp' = sc_resp \o SubSeq(sc_inbound, 1, n)
                        /\ sc_result' = LinkResult(sc_call.ev,
                              LinkOk(sc_resp \o SubSeq(sc_inbound, 1, n)))
                        /\ sc_pc' = "idle"
       \/ /\ Len(sc_inbound) = 0
          /\ sc_closed
          /\ sc_result' = LinkResult(sc_call.ev, LinkOk(sc_resp))
          /\ sc_pc' = "idle"
          /\ UNCHANGED <<sc_inbound, sc_taken, sc_resp>>
       \/ /\ Len(sc_inbound) = 0
          /\ sc_closed
          /\ sc_result' = LinkResult(sc_call.ev, LinkErr("Unhandled"))
          /\ sc_pc' = "idle"
          /\ UNCHANGED <<sc_inbound, sc_taken, sc_resp>>
    /\ UNCHANGED <<sc_kind, sc_open, sc_max, sc_call, sc_log, sc_wire, sc_dev,
                   sc_sent, sc_closed, sc_ops>>
    /\ UNCHANGED <<xdrVars, oncVars, linkVars, concVars, streamVars, fnVars, drvVars>>

\* what VxiClientLink::recv returns to int_recv (mod.rs:82-88, 226-237):
\* the data of the DeviceRead replies up to END, or the error of a
\* recv_packet
VxiRecvs == {LinkOk(<<>>), LinkOk(<<65, 10>>), LinkErr("Unspecified")}

ScpiRecvVxi ==
    /\ sc_pc = "receiving"
    /\ sc_kind = "vxi"
    /\ \E o \in VxiRecvs :
          /\ sc_result' = LinkResult(sc_call.ev, o)
          /\ sc_resp' = o.val
    /\ sc_pc' = "idle"
    /\ UNCHANGED <<sc_kind, sc_open, sc_max, sc_call, sc_log, sc_wire, sc_dev,
                   sc_sent, sc_taken, sc_inbound, sc_closed, sc_ops>>
    /\ UNCHANGED <<xdrVars, oncVars, linkVars, concVars, streamVars, fnVars, drvVars>>

\* the peer of a stream transport sends a byte
ScpiPeerSend ==
    \E b \in {65, 10} :
        /\ sc_kind \in {"tcp", "serial"}
        /\ sc_open
        /\ ~sc_closed
        /\ Len(sc_inbound) + Len(sc_taken) < MaxScpiBytes
        /\ sc_inbound' = Append(sc_inbound, b)
        /\ UNCHANGED <<sc_kind, sc_open, sc_max, sc_pc, sc_call, sc_log, sc_wire,
                       sc_dev, sc_sent, sc_resp, sc_taken, sc_closed, sc_result,
                       sc_ops>>
        /\ UNCHANGED <<xdrVars, oncVars, linkVars, concVars, streamVars, fnVars, drvVars>>

\* the peer of a stream transport closes the stream
ScpiPeerClose ==
    /\ sc_kind \in {"tcp", "serial"}
    /\ sc_open
    /\ ~sc_closed
    /\ sc_closed' = TRUE
    /\ UNCHANGED <<sc_kind, sc_open, sc_max, sc_pc, sc_call, sc_log, sc_wire,
                   sc_dev, sc_sent, sc_resp, sc_taken, sc_inbound, sc_result,
                   sc_ops>>
    /\ UNCHANGED <<xdrVars, oncVars, linkVars, concVars, streamVars, fnVars, drvVars>>

NextScpi ==
    \/ ScpiOpen
    \/ ScpiSend
    \/ ScpiQuery
    \/ ScpiRecv
    \/ ScpiReadUntil
    \/ ScpiRecvVxi
    \/ ScpiPeerSend
    \/ ScpiPeerClose

-----------------------------------------------------------------------------
(* Harness of the parsers and decoders: one call in a run, on an input     *)
(* drawn from a set                                                        *)

InitFn ==
    /\ fn_op = "init"
    /\ fn_in = <<>>
    /\ fn_out = <<>>

(* Strings.  A &str is the sequence of its characters, each held as a      *)
(* one-character string; the inputs are ASCII.                             *)

UpperCase == <<"A", "B", "C", "D", "E", "F", "G", "H", "I", "J", "K", "L", "M", "N", "O", "P", "Q", "R", "S", "T", "U", "V", "W", "X", "Y", "Z">>
LowerCase == <<"a", "b", "c", "d", "e", "f", "g", "h", "i", "j", "k", "l", "m", "n", "o", "p", "q", "r", "s", "t", "u", "v", "w", "x", "y", "z">>

\* char::to_lowercase of an ASCII character
LowerChar(c) ==
    IF \E k \in 1..26 : UpperCase[k] = c
    THEN LowerCase[CHOOSE k \in 1..26 : UpperCase[k] = c]
    ELSE c

\* str::to_lowercase
to_lowercase(s) == [i \in 1..Len(s) |-> LowerChar(s[i])]

\* str::contains(pat)
contains(s, pat) ==
    \E i \in 0..(Len(s) - Len(pat)) : SubSeq(s, i + 1, i + Len(pat)) = pat

\* Option<T>
None == [some |-> FALSE, val |-> <<>>]
Some(v) == [some |-> TRUE, val |-> v]

\* str::strip_prefix(prefix)
strip_prefix(s, prefix) ==
    IF Len(s) >= Len(prefix) /\ SubSeq(s, 1, Len(prefix)) = prefix
    THEN Some(SubSeq(s, Len(prefix) + 1, Len(s)))
    ELSE None

\* str::split_once(c): the parts before and after the first c
split_once(s, c) ==
    IF FirstIndex(s, c) = 0 THEN None
    ELSE Some(<<SubSeq(s, 1, FirstIndex(s, c) - 1),
                SubSeq(s, FirstIndex(s, c) + 1, Len(s))>>)

\* str::split(c).collect(): one field more than there are c in s
RECURSIVE split(_, _)
split(s, c) ==
    IF FirstIndex(s, c) = 0 THEN <<s>>
    ELSE <<SubSeq(s, 1, FirstIndex(s, c) - 1)>>
            \o split(SubSeq(s, FirstIndex(s, c) + 1, Len(s)), c)

\* the fields joined with c between them
RECURSIVE Join(_, _)
Join(fields, c) ==
    IF fields = <<>> THEN <<>>
    ELSE IF Len(fields) = 1 THEN fields[1]
    ELSE fields[1] \o <<c>> \o Join(Tail(fields), c)

\* what a call of the harness returned
FnOk(v) == [kind |-> "Ok", err |-> "", val |-> v]
FnErr(e) == [kind |-> "Err", err |-> e, val |-> <<>>]

-----------------------------------------------------------------------------
(* ModelInfo::from_idn: model.rs *)

\* RigolFamily::from_idn (model.rs:79-93)
RigolFamily_from_idn(idn) ==
    IF contains(to_lowercase(idn[2]), <<"d", "s", "1", "2">>) THEN "DS1200"
    ELSE IF contains(to_lowercase(idn[2]), <<"d", "p", "8">>) THEN "DP800"
    ELSE IF contains(to_lowercase(idn[2]), <<"d", "p", "2">>) THEN "DP2000"
    ELSE "Unknown"

\* SiglentFamily::from_idn (model.rs:108-125)
SiglentFamily_from_idn(idn) ==
    IF contains(to_lowercase(idn[2]), <<"s", "d", "s", "3">>) THEN "SDS3000X"
    ELSE IF contains(to_lowercase(idn[2]), <<"s", "s", "a", "3">>) THEN "SSA3000XPlus"
    ELSE IF contains(to_lowercase(idn[2]), <<"s", "d", "m", "4">>) THEN "SDM4000A"
    ELSE IF contains(to_lowercase(idn[2]), <<"s", "d", "g", "3">>) THEN "SDG3000X"
    ELSE "Unknown"

\* Manufacturer::from_idn (model.rs:49-59)
Manufacturer_from_idn(idn) ==
    IF contains(to_lowercase(idn[1]), <<"r", "i", "g", "o", "l">>)
    THEN [man |-> "Rigol", family |-> RigolFamily_from_idn(idn)]
    ELSE IF contains(to_lowercase(idn[1]), <<"s", "i", "g", "l", "e", "n", "t">>)
    THEN [man |-> "Siglent", family |-> SiglentFamily_from_idn(idn)]
    ELSE [man |-> "Unknown", family |-> "Unknown"]

\* a check that wants three fields
TooFewBelowThree(idn_sep) == Len(idn_sep) < 3

\* model.rs:19: if idn_sep.len() < 2
TooFew(idn_sep) == Len(idn_sep) < 2

\* idn_sep.get(i).map(|s| s.to_string()), i counted from 0
Get(idn_sep, i) == IF i < Len(idn_sep) THEN Some(idn_sep[i + 1]) ELSE None

\* ModelInfo::from_idn (model.rs:17-30)
ModelInfo_from_idn(idn) ==
    IF TooFew(split(idn, ",")) THEN FnErr("Unspecified")
    ELSE FnOk([man_family |-> Manufacturer_from_idn(split(idn, ",")),
               manufacturer |-> split(idn, ",")[1],
               model |-> split(idn, ",")[2],
               serial |-> Get(split(idn, ","), 2),
               version |-> Get(split(idn, ","), 3)])

\* the fields of the *IDN? responses handed to from_idn
IdnFields ==
    { <<>>, <<"R", "I", "G", "O", "L", " ", "T">>, <<"S", "i", "g", "l", "e", "n", "t">>, <<"A", "C", "M", "E">>,
      <<"D", "P", "8", "3", "2">>, <<"s", "d", "S", "3", "0", "5", "4">> }

FnFromIdn ==
    \E fields \in SeqsUpTo(IdnFields, MaxIdnFields) :
        /\ fn_op = "init"
        /\ fn_op' = "from_idn"
        /\ fn_in' = Join(fields, ",")
        /\ fn_out' = ModelInfo_from_idn(Join(fields, ","))
        /\ UNCHANGED <<xdrVars, oncVars, linkVars, concVars, streamVars, scpiVars, drvVars>>

-----------------------------------------------------------------------------
(* RpcMessage::get_success_result on decoded messages: onc.rs *)

\* A message as the peer builds it.  mtype is the message type, stat the
\* reply status, sub the accept or reject status, words what follows it
\* (low and high, or the auth status), payload the results of a success or
\* the arguments of a call.
Message(mtype, stat, sub, words, payload) ==
    [mtype |-> mtype, stat |-> stat, sub |-> sub, words |-> words,
     payload |-> payload]

\* the words w, in order, after the bytes out
RECURSIVE pack_words(_, _)
pack_words(w, out) ==
    IF w = <<>> THEN out ELSE pack_words(Tail(w), pack_u32(Head(w), out))

\* the bytes of a message with xid 7: a call has RPC version 2, program 1,
\* version 1, procedure 1, null credential and verifier and its arguments
\* as an opaque; an accepted reply has a null verifier
MessageBytes(m) ==
    IF m.mtype = 0
    THEN pack_opaque(m.payload,
            pack_auth(NullAuth, pack_auth(NullAuth,
                pack_words(<<7, 0, 2, 1, 1, 1>>, <<>>))))
    ELSE IF m.mtype = 1 /\ m.stat = 0
    THEN pack_words(<<m.sub>> \o m.words,
            pack_auth(NullAuth, pack_words(<<7, 1, 0>>, <<>>))) \o m.payload
    ELSE IF m.mtype = 1
    THEN pack_words(<<7, 1, m.stat, m.sub>> \o m.words, <<>>)
    ELSE pack_words(<<7, m.mtype>>, <<>>)

\* the messages handed to the decoder
MessagePayloads == {<<>>, <<0, 0, 4, 0>>, <<1, 2, 3>>}
Messages ==
    { Message(0, 0, 0, <<>>, p) : p \in MessagePayloads }
    \cup { Message(1, 0, 0, <<>>, p) : p \in MessagePayloads }
    \cup { Message(1, 0, sub, <<>>, <<>>) : sub \in {1, 3, 4, 5, 6, 255} }
    \cup { Message(1, 0, 2, <<low, high>>, <<>>) : low \in {1, 2}, high \in {2, 3} }
    \cup { Message(1, 1, 0, <<low, high>>, <<>>) : low \in {1, 2}, high \in {2, 3} }
    \cup { Message(1, 1, 1, <<a>>, <<>>) : a \in {0, 1, 5, 14, 15} }
    \cup { Message(1, 1, sub, <<0>>, <<>>) : sub \in {2, 9} }
    \cup { Message(1, stat, 0, <<>>, <<>>) : stat \in {2, 3} }
    \cup { Message(mtype, 0, 0, <<>>, <<>>) : mtype \in {2, 3, 65536} }

\* RpcMessage::unpack, then get_success_result on the message decoded
DecodedResult(bytes) ==
    IF unpack_message(bytes).kind # "ok"
    THEN [kind |-> "Err", err |-> unpack_message(bytes).kind, val |-> <<>>,
          what |-> NoVariant]
    ELSE IF get_success_result(unpack_message(bytes).val).kind = "ok"
    THEN [kind |-> "Ok", err |-> "",
          val |-> get_success_result(unpack_message(bytes).val).val,
          what |-> NoVariant]
    ELSE [kind |-> "Err",
          err |-> get_success_result(unpack_message(bytes).val).kind,
          val |-> <<>>,
          what |-> get_success_result(unpack_message(bytes).val).what]

FnSuccessResult ==
    \E m \in Messages :
        /\ fn_op = "init"
        /\ fn_op' = "get_success_result"
        /\ fn_in' = m
        /\ fn_out' = DecodedResult(MessageBytes(m))
        /\ UNCHANGED <<xdrVars, oncVars, linkVars, concVars, streamVars, scpiVars, drvVars>>

-----------------------------------------------------------------------------
(* request_port: portmap.rs *)

\* a call to the program itself, not to the portmapper
request_port_call_direct(xid, prog, vers, prot) ==
    gen_call_packet(xid, prog, vers, GetPortProc,
        pack_mapping([prog |-> prog, vers |-> vers, prot |-> prot, port |-> 0]))

\* portmap.rs:37-49: the mapping with port 0 and client.gen_call_packet, on
\* a client whose last_xid is xid
request_port_call(xid, prog, vers, prot) ==
    gen_call_packet(xid, PORTMAP_PROG, PORTMAP_VERS, GetPortProc,
        pack_mapping([prog |-> prog, vers |-> vers, prot |-> prot, port |-> 0]))

\* the records of the portmapper for the ports given, one accepted SUCCESS
\* reply for xid 0 each, the last of them with the last-fragment bit
RECURSIVE PortRecords(_)
PortRecords(ports) ==
    IF ports = <<>> THEN <<>>
    ELSE Record(Len(ports) = 1, SuccessReply(0, pack_u32(Head(ports), <<>>)))
            \o PortRecords(Tail(ports))

\* the values the replies carry: below, at and above 0xFFFF
PortWords == {0, 1024, 65535, 65536, 70000, -1}

\* RpcIpProto::Tcp and RpcIpProto::Udp
UdpProto == 17

\* request_port (portmap.rs:31-64) on a new OncClient (last_xid 0) with a
\* stream: the packet that request writes, and what is made of the replies
FnRequestPort ==
    \E prog \in {VXI_CORE_PROG, PORTMAP_PROG, 0, 2147483647},
       vers \in {1, 2}, prot \in {TcpProto, UdpProto},
       ports \in SeqsUpTo(PortWords, MaxPortReplies) \ {<<>>} :
        /\ fn_op = "init"
        /\ fn_op' = "request_port"
        /\ fn_in' = [prog |-> prog, vers |-> vers, prot |-> prot, ports |-> ports]
        /\ fn_out' = [packet |-> FramePacket(request_port_call(0, prog, vers, prot)),
                      port |-> PortOutcome(read_response(PortRecords(ports),
                                                         FALSE, 0, <<>>))]
        /\ UNCHANGED <<xdrVars, oncVars, linkVars, concVars, streamVars, scpiVars, drvVars>>

-----------------------------------------------------------------------------
(* The URI dispatcher: scpi_from_uri (protocol/scpi.rs) and                *)
(* equipment_from_uri (equipment/mod.rs), which have the same text up to   *)
(* the connect of the transport                                            *)

Digits == <<"0", "1", "2", "3", "4", "5", "6", "7", "8", "9">>

\* the value of the decimal digit c
DigitVal(c) == (CHOOSE k \in 1..10 : Digits[k] = c) - 1

IsDigits(s) == \A i \in 1..Len(s) : \E k \in 1..10 : Digits[k] = s[i]

\* The digits of s added to the number v \div 10 = q, v % 10 = r, as
\* checked_mul(10) and checked_add(digit) do for a u32: None on overflow
RECURSIVE AddDigits(_, _, _)
AddDigits(s, q, r) ==
    IF s = <<>> THEN Some(<<q, r>>)
    ELSE IF q > 42949672 \/ (q = 42949672 /\ r = 9 /\ DigitVal(s[1]) > 5)
    THEN None
    ELSE AddDigits(Tail(s), (q * 10) + r, DigitVal(s[1]))

\* the u32 with v \div 10 = q and v % 10 = r, as a 32-bit pattern
Pattern(q, r) ==
    IF q > 214748364 \/ (q = 214748364 /\ r >= 8)
    THEN ((q - 429496729) * 10) + (r - 6)
    ELSE (q * 10) + r

\* str::parse::<u32>(): an optional '+', then digits, at least one, whose
\* value fits in 32 bits
parse_u32(s) ==
    IF s # <<>> /\ s[1] = "+" /\ Len(s) > 1 /\ IsDigits(Tail(s))
    THEN IF AddDigits(Tail(s), 0, 0).some
         THEN Some(Pattern(AddDigits(Tail(s), 0, 0).val[1],
                           AddDigits(Tail(s), 0, 0).val[2]))
         ELSE None
    ELSE IF s # <<>> /\ IsDigits(s) /\ AddDigits(s, 0, 0).some
    THEN Some(Pattern(AddDigits(s, 0, 0).val[1], AddDigits(s, 0, 0).val[2]))
    ELSE None

\* str::parse::<u16>()
parse_u16(s) ==
    IF parse_u32(s).some /\ parse_u32(s).val \in 0..65535 THEN parse_u32(s)
    ELSE None

\* the index of the last c of s, 0 when s has none
LastIndex(s, c) ==
    IF \E i \in 1..Len(s) : s[i] = c
    THEN CHOOSE i \in 1..Len(s) : s[i] = c /\ \A j \in (i + 1)..Len(s) : s[j] # c
    ELSE 0

\* socket.to_socket_addrs()?.next() on a string that is "host:port" and no
\* address in digits: the string is cut at its last ':' and the port read
\* as a u16, an io::Error when either fails; then the host is looked up,
\* which gives an address, an io::Error, or no address at all (dns)
to_socket_addrs(socket, dns) ==
    IF LastIndex(socket, ":") = 0 THEN FnErr("IoError")
    ELSE IF ~parse_u16(SubSeq(socket, LastIndex(socket, ":") + 1, Len(socket))).some
    THEN FnErr("IoError")
    ELSE IF dns = "error" THEN FnErr("IoError")
    ELSE IF dns = "none" THEN FnErr("Unspecified")
    ELSE FnOk([host |-> SubSeq(socket, 1, LastIndex(socket, ":") - 1),
               port |-> parse_u16(SubSeq(socket, LastIndex(socket, ":") + 1,
                                         Len(socket))).val])

\* PORTMAP_PORT as format!("{}", ..) writes it
PortmapPortText == <<"1", "1", "1">>

\* what the dispatcher returns: made is the transport it constructed, and
\* connected says that its connect was called
Dispatched(kind, err, made, connected) ==
    [kind |-> kind, err |-> err, made |-> made, connected |-> connected]

\* the transport is constructed and connected (scpi.rs:89-92, 98-101,
\* 129-132); conn is the outcome of connect, whose error is returned
Connect(made, conn) ==
    IF conn = "ok" THEN Dispatched("Ok", "", Some(made), TRUE)
    ELSE Dispatched("Err", conn, Some(made), TRUE)

\* scpi.rs:118: value.parse() for the u32 baud
Baud(value) == parse_u32(value)

\* The loop over the arguments of a serial URI (scpi.rs:109-127), from the
\* baud reached so far: Err(InvalidArgument) at the first argument without
\* '=', with a key other than "baud", or with a value that does not parse
RECURSIVE SerialArgs(_, _)
SerialArgs(args, baud) ==
    IF args = <<>> THEN FnOk(baud)
    ELSE IF ~split_once(args[1], "=").some THEN FnErr("InvalidArgument")
    ELSE IF split_once(args[1], "=").val[1] # <<"b", "a", "u", "d">>
    THEN FnErr("InvalidArgument")
    ELSE IF ~Baud(split_once(args[1], "=").val[2]).some
    THEN FnErr("InvalidArgument")
    ELSE SerialArgs(Tail(args), Baud(split_once(args[1], "=").val[2]).val)

\* scpi.rs:103-132: the path, the arguments after '?', the baud from 9600
SerialFromUri(rest, conn) ==
    IF ~split_once(rest, "?").some
    THEN Connect([kind |-> "serial", path |-> rest, baud |-> 9600], conn)
    ELSE IF SerialArgs(split(split_once(rest, "?").val[2], "&"), 9600).kind = "Err"
    THEN Dispatched("Err", "InvalidArgument", None, FALSE)
    ELSE Connect([kind |-> "serial", path |-> split_once(rest, "?").val[1],
                  baud |-> SerialArgs(split(split_once(rest, "?").val[2], "&"),
                                      9600).val], conn)

\* scpi.rs:80-92 and 93-101: the socket of a vxi11 or tcp URI
NetFromUri(kind, socket, dns, conn) ==
    IF to_socket_addrs(socket, dns).kind = "Err"
    THEN Dispatched("Err", to_socket_addrs(socket, dns).err, None, FALSE)
    ELSE Connect([kind |-> kind, socket |-> to_socket_addrs(socket, dns).val], conn)

\* scpi_from_uri (scpi.rs:75-137), equipment_from_uri (equipment/mod.rs:
\* 85-144) up to the transport connected
scpi_from_uri(uri, dns, conn) ==
    IF strip_prefix(uri, <<"v", "x", "i", "1", "1", ":", "/", "/">>).some
    THEN NetFromUri("vxi",
            IF contains(strip_prefix(uri, <<"v", "x", "i", "1", "1", ":", "/", "/">>).val, <<":">>)
            THEN strip_prefix(uri, <<"v", "x", "i", "1", "1", ":", "/", "/">>).val
            ELSE strip_prefix(uri, <<"v", "x", "i", "1", "1", ":", "/", "/">>).val \o <<":">> \o PortmapPortText,
            dns, conn)
    ELSE IF strip_prefix(uri, <<"t", "c", "p", ":", "/", "/">>).some
    THEN NetFromUri("tcp", strip_prefix(uri, <<"t", "c", "p", ":", "/", "/">>).val, dns, conn)
    ELSE IF strip_prefix(uri, <<"s", "e", "r", "i", "a", "l", ":">>).some
    THEN SerialFromUri(strip_prefix(uri, <<"s", "e", "r", "i", "a", "l", ":">>).val, conn)
    ELSE Dispatched("Err", "InvalidArgument", None, FALSE)

\* The URIs handed to the dispatcher, as their parts: the scheme with its
\* separator, then a host with or without a port, or a path with or
\* without arguments; an argument is a key, with or without '=' and a value
UriArg(key, eq, value) == [key |-> key, eq |-> eq, value |-> value]

ArgText(a) == IF a.eq THEN a.key \o <<"=">> \o a.value ELSE a.key

RECURSIVE ArgTexts(_)
ArgTexts(args) ==
    IF args = <<>> THEN <<>> ELSE <<ArgText(Head(args))>> \o ArgTexts(Tail(args))

UriText(u) ==
    IF u.net
    THEN u.scheme \o u.host \o (IF u.port.some THEN <<":">> \o u.port.val ELSE <<>>)
    ELSE u.scheme \o u.path
            \o (IF u.args.some THEN <<"?">> \o Join(ArgTexts(u.args.val), "&")
                ELSE <<>>)

BaudTexts == { <<"9", "6", "0", "0">>, <<"0">>, <<>>, <<"x">>, <<"-", "1">>, <<"+", "5">>, <<"4", "2", "9", "4", "9", "6", "7", "2", "9", "6">> }

UriArgs ==
    { UriArg(<<"b", "a", "u", "d">>, TRUE, v) : v \in BaudTexts }
    \cup { UriArg(<<"b", "a", "u", "d">>, FALSE, <<>>), UriArg(<<"p", "a", "r", "i", "t", "y">>, TRUE, <<"e", "v", "e", "n">>) }

NetUris ==
    { [net |-> TRUE, scheme |-> s, host |-> <<"h">>, port |-> p, dns |-> d,
       path |-> <<>>, args |-> None]
        : s \in { <<"v", "x", "i", "1", "1", ":", "/", "/">>, <<"t", "c", "p", ":", "/", "/">>, <<"h", "t", "t", "p", ":", "/", "/">>, <<"V", "X", "I", "1", "1", ":", "/", "/">> },
          p \in { None, Some(<<"1", "0", "2", "4">>), Some(<<"x">>), Some(<<"7", "0", "0", "0", "0">>) },
          d \in {"addr", "error", "none"} }

SerialUris ==
    { [net |-> FALSE, scheme |-> s, host |-> <<>>, port |-> None, dns |-> "addr",
       path |-> <<"/", "p">>, args |-> a]
        : s \in { <<"s", "e", "r", "i", "a", "l", ":">>, <<"f", "i", "l", "e", ":">> },
          a \in {None} \cup {Some(l) : l \in SeqsUpTo(UriArgs, MaxUriArgs)} }

FnFromUri ==
    \E u \in NetUris \cup SerialUris, conn \in {"ok", "Unhandled"} :
        /\ fn_op = "init"
        /\ fn_op' = "from_uri"
        /\ fn_in' = [uri |-> u, conn |-> conn]
        /\ fn_out' = scpi_from_uri(UriText(u), u.dns, conn)
        /\ UNCHANGED <<xdrVars, oncVars, linkVars, concVars, streamVars, scpiVars, drvVars>>

-----------------------------------------------------------------------------
(* The waveform reader of the Siglent oscilloscope driver:                  *)
(* equipment/drivers/oscilloscope_siglent.rs                                *)

InitDrv ==
    /\ drv_pc = "idle"
    /\ drv_desc = [n_points |-> 0, comm_type |-> 0]
    /\ drv_sample = 0
    /\ drv_values = <<>>
    /\ drv_log = <<>>
    /\ drv_hdr = [prefix |-> <<>>, length |-> -1, kind |-> "none"]
    /\ drv_taken = 0
    /\ drv_result = NoLinkResult

\* the calls the driver makes on the ScpiProtocol
DrvSend(data) == [op |-> "send", data |-> data, len |-> 0, timeout |-> 0]

DrvRecvRaw(len, timeout) ==
    [op |-> "recv_raw", data |-> "", len |-> len, timeout |-> timeout]

DrvRecv == [op |-> "recv", data |-> "", len |-> 0, timeout |-> 0]

\* what a call of the driver returns
DrvResult(kind, err) ==
    [kind |-> kind, val |-> <<>>, op |-> "read_waveform", err |-> err,
     dev |-> NoError]

\* The outcomes of the calls on the ScpiProtocol.  recv_raw(Some(n), Some(t))
\* returns n bytes, Timeout, or Unimplemented (the VXI-11 transport)
SendOutcomes == {"Ok", "IoError"}

RecvRawOutcomes == {"Ok", "Timeout", "Unimplemented"}

RecvOutcomes == {"Ok", "Unhandled"}

\* `res[1] - b'0'` on u8 is checked in a build with overflow checks, where
\* it panics below b'0', and wraps in one without
Builds == {"checked", "wrapping"}

\* oscilloscope_siglent.rs:283: let length = (res[1] - b'0').into();
HeaderLength(b, build) ==
    IF b >= 48 THEN Some(b - 48)
    ELSE IF build = "checked" THEN None
    ELSE Some((b - 48) + 256)

\* what read_header did: the two bytes it read first, the length it asked
\* for next (-1 when it did not), and how it ended
BlockHeader(prefix, length, kind) ==
    [prefix |-> prefix, length |-> length, kind |-> kind]

\* What a function of the driver returns, with the calls it made on the
\* protocol and the bytes of the response it read
Step(kind, err, calls, taken, hdr) ==
    [kind |-> kind, err |-> err, calls |-> calls, taken |-> taken, hdr |-> hdr]

\* read_header (oscilloscope_siglent.rs:279-288) when the response begins
\* with the two bytes prefix; o1 and o2 are the outcomes of its recv_raw
read_header(prefix, build, o1, o2) ==
    IF o1 # "Ok"
    THEN Step("Err", o1, <<DrvRecvRaw(2, 3)>>, 0, BlockHeader(<<>>, -1, "Err"))
    ELSE IF ~HeaderLength(prefix[2], build).some
    THEN Step("Panic", "", <<DrvRecvRaw(2, 3)>>, 2, BlockHeader(prefix, -1, "Panic"))
    ELSE IF o2 # "Ok"
    THEN Step("Err", o2,
              <<DrvRecvRaw(2, 3), DrvRecvRaw(HeaderLength(prefix[2], build).val, 1)>>,
              2, BlockHeader(prefix, HeaderLength(prefix[2], build).val, "Err"))
    ELSE Step("Ok", "",
              <<DrvRecvRaw(2, 3), DrvRecvRaw(HeaderLength(prefix[2], build).val, 1)>>,
              2 + HeaderLength(prefix[2], build).val,
              BlockHeader(prefix, HeaderLength(prefix[2], build).val, "Ok"))

\* the step h, then, when it is Ok, one recv_raw of len bytes with outcome o
ThenRecvRaw(h, len, timeout, o) ==
    IF h.kind # "Ok" THEN h
    ELSE IF o # "Ok"
    THEN Step("Err", o, h.calls \o <<DrvRecvRaw(len, timeout)>>, h.taken, h.hdr)
    ELSE Step("Ok", "", h.calls \o <<DrvRecvRaw(len, timeout)>>, h.taken + len, h.hdr)

\* the send with outcome s, then, when it is Ok, the step h
SendThen(data, s, h) ==
    IF s # "Ok"
    THEN Step("Err", s, <<DrvSend(data)>>, 0, BlockHeader(<<>>, -1, "none"))
    ELSE Step(h.kind, h.err, <<DrvSend(data)>> \o h.calls, h.taken, h.hdr)

\* read_preamble (oscilloscope_siglent.rs:290-303): the query, the header,
\* the 346 bytes of the descriptor, which from_bytes accepts at that size
read_preamble(s, prefix, build, o1, o2, o3) ==
    SendThen(":WAV:PRE?", s,
             ThenRecvRaw(read_header(prefix, build, o1, o2), DescSize, 1, o3))

\* oscilloscope_siglent.rs:313-317: the bytes of count samples
SampleBytes(count, comm_type) == IF comm_type = 0 THEN count ELSE count * 2

\* read_samples (oscilloscope_siglent.rs:305-343): the header, then the
\* bytes of count samples
read_samples(count, comm_type, prefix, build, o1, o2, o3) ==
    ThenRecvRaw(read_header(prefix, build, o1, o2),
                SampleBytes(count, comm_type), 3, o3)

\* a window of WindowPoints samples whatever is left
samples_to_read_full(samples, sample) == WindowPoints

\* oscilloscope_siglent.rs:377-380
samples_to_read(samples, sample) ==
    IF samples - sample > WindowPoints THEN WindowPoints ELSE samples - sample

\* oscilloscope_siglent.rs:352-362, for the first channel
SetupCommands ==
    <<":WAV:SOUR C1", ":WAV:STAR 0", ":WAV:POIN 20000", ":WAV:INT 1",
      ":WAV:WIDT WORD">>

\* the two bytes a response begins with: "#3", "#9", "#0", "#/", "#A",
\* "XY", a line feed before the '#', and the zeros of a buffer not filled
Prefixes ==
    { <<35, 51>>, <<35, 57>>, <<35, 48>>, <<35, 47>>, <<35, 65>>, <<88, 89>>,
      <<10, 35>>, <<0, 0>> }

\* of the responses with samples: "#9", "XY"
DataPrefixes == { <<35, 57>>, <<88, 89>> }

\* n_points of the descriptors read
PointCounts ==
    { 0, 1, WindowPoints - 1, WindowPoints, WindowPoints + 1,
      WindowPoints * MaxWindows, (WindowPoints * MaxWindows) + 1 }

CommTypes == {0, 1}

\* The series of the samples of one window in waveform.readings.values:
\* count samples made in order from the bytes of the response from at on,
\* width bytes each
Samples(at, count, width) == [at |-> at, count |-> count, width |-> width]

\* read_waveform up to the preamble: the five commands, the one that
\* fails (when one does) returning its error
ReadWaveformSetup ==
    \E f \in 0..Len(SetupCommands) :
        /\ drv_pc = "idle"
        /\ drv_log' = [i \in 1..(IF f = 0 THEN Len(SetupCommands) ELSE f)
                        |-> DrvSend(SetupCommands[i])]
        /\ drv_pc' = IF f = 0 THEN "preamble" ELSE "done"
        /\ drv_result' = IF f = 0 THEN drv_result ELSE DrvResult("Err", "IoError")
        /\ UNCHANGED <<drv_desc, drv_sample, drv_values, drv_hdr, drv_taken>>
        /\ UNCHANGED <<xdrVars, oncVars, linkVars, concVars, streamVars, scpiVars, fnVars, chanVars>>

\* let pre = self.read_preamble().await?; and the locals before the loop
ReadPreamble ==
    /\ drv_pc = "preamble"
    /\ \E s \in SendOutcomes, prefix \in Prefixes, build \in Builds,
          o1 \in RecvRawOutcomes, o2 \in RecvRawOutcomes, o3 \in RecvRawOutcomes,
          n \in PointCounts, c \in CommTypes :
        \E r \in {read_preamble(s, prefix, build, o1, o2, o3)} :
            /\ drv_log' = drv_log \o r.calls
            /\ drv_hdr' = r.hdr
            /\ drv_taken' = drv_taken + r.taken
            /\ IF r.kind = "Ok"
               THEN /\ drv_desc' = [n_points |-> n, comm_type |-> c]
                    /\ drv_sample' = 0
                    /\ drv_pc' = "loop"
                    /\ UNCHANGED drv_result
               ELSE /\ drv_pc' = IF r.kind = "Panic" THEN "panicked" ELSE "done"
                    /\ drv_result' = DrvResult(r.kind, r.err)
                    /\ UNCHANGED <<drv_desc, drv_sample>>
            /\ UNCHANGED drv_values
            /\ UNCHANGED <<xdrVars, oncVars, linkVars, concVars, streamVars, scpiVars, fnVars, chanVars>>

\* one turn of `while sample < samples` (oscilloscope_siglent.rs:376-391)
ReadWindow ==
    /\ drv_pc = "loop"
    /\ drv_sample < drv_desc.n_points
    /\ \E s \in SendOutcomes, prefix \in DataPrefixes, build \in Builds,
          o1 \in RecvRawOutcomes, o2 \in RecvRawOutcomes, o3 \in RecvRawOutcomes :
        \E count \in {samples_to_read(drv_desc.n_points, drv_sample)} :
        \E r \in {SendThen(":WAV:DATA?", s,
                           read_samples(count, drv_desc.comm_type, prefix, build,
                                        o1, o2, o3))} :
            /\ drv_log' = drv_log \o r.calls
            /\ drv_hdr' = r.hdr
            /\ drv_taken' = drv_taken + r.taken
            /\ IF r.kind = "Ok"
               THEN /\ drv_values' =
                        Append(drv_values,
                               Samples(drv_taken + 2 + r.hdr.length, count,
                                       SampleBytes(1, drv_desc.comm_type)))
                    /\ drv_sample' = drv_sample + count
                    /\ UNCHANGED <<drv_pc, drv_result>>
               ELSE /\ drv_pc' = IF r.kind = "Panic" THEN "panicked" ELSE "done"
                    /\ drv_result' = DrvResult(r.kind, r.err)
                    /\ UNCHANGED <<drv_values, drv_sample>>
            /\ UNCHANGED drv_desc
            /\ UNCHANGED <<xdrVars, oncVars, linkVars, concVars, streamVars, scpiVars, fnVars, chanVars>>

\* after the loop: the recv of the final newline, then Ok(waveform)
ReadWaveformEnd ==
    /\ drv_pc = "loop"
    /\ ~(drv_sample < drv_desc.n_points)
    /\ \E o \in RecvOutcomes :
        /\ drv_log' = Append(drv_log, DrvRecv)
        /\ drv_pc' = "done"
        /\ drv_result' = IF o = "Ok" THEN DrvResult("Ok", "") ELSE DrvResult("Err", o)
        /\ UNCHANGED <<drv_desc, drv_sample, drv_values, drv_hdr, drv_taken>>
        /\ UNCHANGED <<xdrVars, oncVars, linkVars, concVars, streamVars, scpiVars, fnVars, chanVars>>

-----------------------------------------------------------------------------
(* The decoders of the driver: WaveDescData::from_bytes and the samples of *)
(* read_samples                                                            *)

\* u16 and u32 fields of the descriptor as the transmute reads them on a
\* little-endian host, from the 0-based offset off of data
le_u16(data, off) == data[off + 1] + (data[off + 2] * 256)

le_u32(data, off) ==
    data[off + 1] + (data[off + 2] * 256) + (data[off + 3] * 65536)
        + ((data[off + 4] % 128) * 16777216)
        - (IF data[off + 4] >= 128 THEN 2147483647 + 1 ELSE 0)

\* WaveDescData::from_bytes (oscilloscope_siglent.rs:492-504), with the
\* fields read_waveform uses: comm_type at offset 32, n_points at 116
from_bytes(data) ==
    IF Len(data) # DescSize THEN FnErr("Unspecified")
    ELSE FnOk([comm_type |-> le_u16(data, 32), n_points |-> le_u32(data, 116)])

\* len bytes of a descriptor with the low bytes of comm_type and n_points
DescBytes(len, c, n) ==
    [i \in 1..len |-> IF i = 33 THEN c ELSE IF i = 117 THEN n ELSE 0]

DescLens == {0, 1, DescSize - 1, DescSize, DescSize + 1, 2 * DescSize}

FnFromBytes ==
    /\ fn_op = "init"
    /\ \E len \in DescLens, c \in CommTypes, n \in ByteVals :
        /\ fn_op' = "from_bytes"
        /\ fn_in' = DescBytes(len, c, n)
        /\ fn_out' = from_bytes(DescBytes(len, c, n))
        /\ UNCHANGED <<xdrVars, oncVars, linkVars, concVars, streamVars, scpiVars, drvVars>>

\* Numbers of the f32 and f64 fields and of the samples, as fractions in
\* lowest terms with a denominator above 0
RECURSIVE GCD(_, _)
GCD(a, b) == IF b = 0 THEN a ELSE GCD(b, a % b)

Abs(a) == IF a < 0 THEN 0 - a ELSE a

Frac(n, d) ==
    LET g == GCD(Abs(n), Abs(d))
    IN  IF d < 0 THEN [n |-> (0 - n) \div g, d |-> (0 - d) \div g]
        ELSE [n |-> n \div g, d |-> d \div g]

FracMul(a, b) == Frac(a.n * b.n, a.d * b.d)

FracDiv(a, b) == Frac(a.n * b.d, a.d * b.n)

FracSub(a, b) == Frac((a.n * b.d) - (b.n * a.d), a.d * b.d)

\* a byte read as u8, not as i8
as_u8(b) == b

\* oscilloscope_siglent.rs:331: s as i8
as_i8(b) == IF b >= 128 THEN b - 256 ELSE b

\* the two bytes read with the first as the high one
i16_from_be_bytes(s) ==
    IF s[1] >= 128 THEN ((s[1] * 256) + s[2]) - 65536 ELSE (s[1] * 256) + s[2]

\* oscilloscope_siglent.rs:337: i16::from_le_bytes
i16_from_le_bytes(s) ==
    IF s[2] >= 128 THEN ((s[2] * 256) + s[1]) - 65536 ELSE (s[2] * 256) + s[1]

\* raw.chunks(2): pairs, and a last chunk of one byte when the length is odd
RECURSIVE chunks2(_)
chunks2(raw) ==
    IF raw = <<>> THEN <<>>
    ELSE IF Len(raw) = 1 THEN <<raw>>
    ELSE <<SubSeq(raw, 1, 2)>> \o chunks2(SubSeq(raw, 3, Len(raw)))

\* oscilloscope_siglent.rs:324-325
Scale(wavedesc) ==
    FracDiv(FracMul(wavedesc.attenuation, wavedesc.vert_gain), wavedesc.code_per_div)

\* (s as f64) * scale - offset
SampleValue(s, wavedesc) ==
    FracSub(FracMul(Frac(s, 1), Scale(wavedesc)), wavedesc.vert_offset)

\* oscilloscope_siglent.rs:328-340: the samples made from raw
SampleValues(raw, wavedesc) ==
    IF wavedesc.comm_type = 0
    THEN [i \in 1..Len(raw) |-> SampleValue(as_i8(raw[i]), wavedesc)]
    ELSE [i \in 1..Len(chunks2(raw)) |->
            SampleValue(i16_from_le_bytes(chunks2(raw)[i]), wavedesc)]

SampleByteVals == {0, 1, 128, 255}

\* descriptors: comm_type 0, 1 and one above, gains 1/100 and 2, offsets 0
\* and -1/2, 25 codes per division, attenuation 1
WaveDescs ==
    { [comm_type |-> c, vert_gain |-> g, vert_offset |-> o,
       code_per_div |-> Frac(25, 1), attenuation |-> Frac(1, 1)]
        : c \in {0, 1, 2}, g \in {Frac(1, 100), Frac(2, 1)},
          o \in {Frac(0, 1), Frac(-1, 2)} }

\* read_samples (oscilloscope_siglent.rs:305-343) on a response that begins
\* with "#9" and nine digits: raw is what its recv_raw returns, dest the
\* values before the call
FnReadSamples ==
    /\ fn_op = "init"
    /\ \E count \in 0..MaxSamples, wavedesc \in WaveDescs,
          o3 \in {"Ok", "Timeout"}, dest \in {<<>>, <<Frac(7, 1)>>} :
        \E raw \in IF o3 = "Ok"
                   THEN {r \in SeqsUpTo(SampleByteVals, 2 * MaxSamples) :
                            Len(r) = SampleBytes(count, wavedesc.comm_type)}
                   ELSE {<<>>} :
        \E r \in {read_samples(count, wavedesc.comm_type, <<35, 57>>, "checked",
                               "Ok", "Ok", o3)} :
            /\ fn_op' = "read_samples"
            /\ fn_in' = [count |-> count, wavedesc |-> wavedesc, raw |-> raw,
                         dest |-> dest]
            /\ fn_out' = [kind |-> r.kind, err |-> r.err, calls |-> r.calls,
                          dest |-> IF r.kind = "Ok"
                                   THEN dest \o SampleValues(raw, wavedesc)
                                   ELSE dest]
            /\ UNCHANGED <<xdrVars, oncVars, linkVars, concVars, streamVars, scpiVars, drvVars>>

NextDrv ==
    \/ ReadWaveformSetup
    \/ ReadPreamble
    \/ ReadWindow
    \/ ReadWaveformEnd

-----------------------------------------------------------------------------
-----------------------------------------------------------------------------
(* Tasks that share the transport of the driver: the channels of one       *)
(* oscilloscope hold clones of proto: Arc<Mutex<Box<dyn ScpiProtocol>>>    *)
(* (oscilloscope_siglent.rs:256-262) and take its lock call by call        *)

\* the calls of the driver a task makes: SiglentOscilloscopeChannel::send,
\* query_str, read_preamble, and one turn of the loop of read_waveform
\* (the send of :WAV:DATA? and read_samples)
ChanOps == {"send", "query_str", "read_preamble", "window"}

\* the command each call sends
ChanCommand(op) ==
    CASE op = "send"          -> ":WAV:STAR 0"
      [] op = "query_str"     -> ":CHAN1:SWIT?"
      [] op = "read_preamble" -> ":WAV:PRE?"
      [] OTHER                -> ":WAV:DATA?"

\* the commands the instrument answers with a block: a header and a payload
BlockCommands == {":WAV:PRE?", ":WAV:DATA?"}

\* what the instrument sends back for a command, part by part: nothing for a
\* setting, a line for a query, a block header and its payload for a block
ReplyParts(cmd) ==
    IF cmd \in BlockCommands THEN <<"header", "payload">>
    ELSE IF cmd = ":CHAN1:SWIT?" THEN <<"line">>
    ELSE <<>>

\* a part of the reply to the command sent at place `of` of ch_wire
Part(kind, of) == [part |-> kind, of |-> of]

ChanEvent(ev, t, cmd, part) == [ev |-> ev, task |-> t, cmd |-> cmd, part |-> part]

NoPart == Part("none", 0)

InitChan ==
    /\ proto_lock = 0
    /\ ch_pc = [t \in Tasks |-> "idle"]
    /\ ch_op = [t \in Tasks |-> "none"]
    /\ ch_res = [t \in Tasks |-> "none"]
    /\ ch_got = [t \in Tasks |-> <<>>]
    /\ ch_wire = <<>>
    /\ ch_queue = <<>>
    /\ n_ch_ops = 0

\* a task calls send, query_str, read_preamble or reaches the send of
\* :WAV:DATA? in read_waveform, and with it self.proto.lock().await
\* (oscilloscope_siglent.rs:266, 270, 291, 382)
ChanStart(t) ==
    \E op \in ChanOps :
        /\ ch_pc[t] = "idle"
        /\ n_ch_ops < MaxChanOps
        /\ n_ch_ops' = n_ch_ops + 1
        /\ ch_pc' = [ch_pc EXCEPT ![t] = "waiting"]
        /\ ch_op' = [ch_op EXCEPT ![t] = op]
        /\ ch_res' = [ch_res EXCEPT ![t] = "none"]
        /\ ch_got' = [ch_got EXCEPT ![t] = <<>>]
        /\ UNCHANGED <<proto_lock, ch_wire, ch_queue>>
        /\ UNCHANGED <<drv_pc, drv_desc, drv_sample, drv_values, drv_log,
                       drv_hdr, drv_taken, drv_result>>
        /\ UNCHANGED <<xdrVars, oncVars, linkVars, concVars, streamVars, scpiVars, fnVars>>

\* the lock of proto is granted to the task: before its send, or at the top
\* of read_samples (oscilloscope_siglent.rs:311)
ChanLock(t) ==
    /\ ch_pc[t] \in {"waiting", "waiting_read"}
    /\ LockFree(proto_lock)
    /\ proto_lock' = t
    /\ ch_pc' = [ch_pc EXCEPT ![t] = IF ch_pc[t] = "waiting" THEN "send" ELSE "header"]
    /\ UNCHANGED <<ch_op, ch_res, ch_got, ch_wire, ch_queue, n_ch_ops>>
    /\ UNCHANGED <<drv_pc, drv_desc, drv_sample, drv_values, drv_log,
                   drv_hdr, drv_taken, drv_result>>
    /\ UNCHANGED <<xdrVars, oncVars, linkVars, concVars, streamVars, scpiVars, fnVars>>

\* where a call goes after its command was sent: send returns; self.send in
\* read_waveform returns too, its guard dropped at the end of the statement
\* (oscilloscope_siglent.rs:266), and read_samples asks for the lock again;
\* query and read_preamble read under the guard they hold
AfterChanSend(op) ==
    CASE op = "send"          -> "idle"
      [] op = "window"        -> "waiting_read"
      [] op = "read_preamble" -> "header"
      [] OTHER                -> "line"

\* the command is written, or the write fails and the call returns the
\* error; the instrument answers a command it received at once
ChanSend(t) ==
    /\ ch_pc[t] = "send"
    /\ proto_lock = t
    /\ \E ok \in BOOLEAN :
        IF ok
        THEN /\ ch_wire' = Append(ch_wire,
                              ChanEvent("send", t, ChanCommand(ch_op[t]), NoPart))
             /\ ch_queue' = ch_queue \o
                   [i \in 1..Len(ReplyParts(ChanCommand(ch_op[t]))) |->
                       Part(ReplyParts(ChanCommand(ch_op[t]))[i], Len(ch_wire) + 1)]
             /\ ch_pc' = [ch_pc EXCEPT ![t] = AfterChanSend(ch_op[t])]
             /\ ch_res' = [ch_res EXCEPT ![t] =
                              IF ch_op[t] = "send" THEN "Ok" ELSE "none"]
             /\ proto_lock' = IF AfterChanSend(ch_op[t]) \in {"idle", "waiting_read"}
                              THEN 0 ELSE t
        ELSE /\ ch_pc' = [ch_pc EXCEPT ![t] = "idle"]
             /\ ch_res' = [ch_res EXCEPT ![t] = "IoError"]
             /\ proto_lock' = 0
             /\ UNCHANGED <<ch_wire, ch_queue>>
    /\ UNCHANGED <<ch_op, ch_got, n_ch_ops>>
    /\ UNCHANGED <<drv_pc, drv_desc, drv_sample, drv_values, drv_log,
                   drv_hdr, drv_taken, drv_result>>
    /\ UNCHANGED <<xdrVars, oncVars, linkVars, concVars, streamVars, scpiVars, fnVars>>

\* one read of the call: read_header, the recv_raw of the payload
\* (oscilloscope_siglent.rs:294-297, 319-322) or the recv of query; it takes
\* what the instrument sent first.  With nothing to read recv_raw times out
\* and the call returns the error; recv waits.  After its last read the call
\* returns and the guard is dropped.
ChanRead(t) ==
    /\ ch_pc[t] \in {"header", "payload", "line"}
    /\ proto_lock = t
    /\ IF ch_queue = <<>>
       THEN /\ ch_pc[t] # "line"
            /\ ch_pc' = [ch_pc EXCEPT ![t] = "idle"]
            /\ ch_res' = [ch_res EXCEPT ![t] = "Timeout"]
            /\ proto_lock' = 0
            /\ UNCHANGED <<ch_got, ch_wire, ch_queue>>
       ELSE /\ ch_got' = [ch_got EXCEPT ![t] = Append(@, Head(ch_queue))]
            /\ ch_queue' = Tail(ch_queue)
            /\ ch_wire' = Append(ch_wire,
                             ChanEvent("read", t, ChanCommand(ch_op[t]), Head(ch_queue)))
            /\ IF ch_pc[t] = "header"
               THEN /\ ch_pc' = [ch_pc EXCEPT ![t] = "payload"]
                    /\ UNCHANGED <<ch_res, proto_lock>>
               ELSE /\ ch_pc' = [ch_pc EXCEPT ![t] = "idle"]
                    /\ ch_res' = [ch_res EXCEPT ![t] = "Ok"]
                    /\ proto_lock' = 0
    /\ UNCHANGED <<ch_op, n_ch_ops>>
    /\ UNCHANGED <<drv_pc, drv_desc, drv_sample, drv_values, drv_log,
                   drv_hdr, drv_taken, drv_result>>
    /\ UNCHANGED <<xdrVars, oncVars, linkVars, concVars, streamVars, scpiVars, fnVars>>

NextChan ==
    \/ \E t \in Tasks : ChanStart(t)
    \/ \E t \in Tasks : ChanLock(t)
    \/ \E t \in Tasks : ChanSend(t)
    \/ \E t \in Tasks : ChanRead(t)

Init ==
    /\ InitXdr /\ InitOnc /\ InitLink /\ InitConc /\ InitStream
    /\ InitScpi /\ InitFn /\ InitDrv /\ InitChan

SpecXdr == Init /\ [][NextXdr]_vars

SpecOnc == Init /\ [][NextOnc]_vars

\* the loop of read_response goes on whenever a record, or the end of the
\* stream, is there to be read
SpecOncLive == SpecOnc /\ WF_<<onc_pc, inbound>>(ReadTurn)

SpecLink == Init /\ [][NextLink]_vars

SpecConc == Init /\ [][NextConc]_vars

\* tokio's Mutex hands the lock to its waiters in the order they asked, so a
\* waiter is not passed over for ever; a task that can go on does; and the
\* loop of read_response goes on whenever there is something to read
SpecConcLive ==
    /\ SpecConc
    /\ \A t \in Tasks : SF_vars(TaskLockClient(t))
    /\ \A t \in Tasks : WF_vars(TaskWriteCall(t))
    /\ \A t \in Tasks : WF_vars(TaskReturn(t))
    /\ WF_<<task_pc, inbound>>(ConcReadTurn)

SpecStream == Init /\ [][NextStream]_vars

SpecScpi == Init /\ [][NextScpi]_vars

\* the calls of the parsers and decoders, each on an input of its own
NextFn ==
    \/ FnFromIdn
    \/ FnSuccessResult
    \/ FnRequestPort
    \/ FnFromUri
    \/ FnFromBytes
    \/ FnReadSamples

SpecFn == Init /\ [][NextFn]_vars

SpecDrv == Init /\ [][NextDrv]_vars

SpecChan == Init /\ [][NextChan]_vars

\* every step of read_waveform that can be taken is taken in the end
SpecDrvLive == SpecDrv /\ WF_vars(NextDrv)

\* The sessions of the four kinds of client side by side: the connects and
\* disconnects of an OncClient, of a stream transport and of the VXI
\* transport, and what the peer of the stream transport does meanwhile
NextSession ==
    \/ OncConnect
    \/ StreamNew
    \/ StreamConnect
    \/ StreamDisconnect
    \/ StreamPeerSend
    \/ StreamPeerClose
    \/ VxiConnect
    \/ VxiDisconnect

SpecSession == Init /\ [][NextSession]_vars

-----------------------------------------------------------------------------
(* Properties *)

\* the xid of the CALL in a written packet: the word after the record marker
CallXid(packet) == from_be_bytes(SubSeq(packet, 5, 8))

\* the number the peer gave the record a decoded message came from
Serial(m) ==
    IF m.body.tag = "Success" /\ Len(m.body.results) >= 4
    THEN from_be_bytes(Take(m.body.results, 4))
    ELSE IF Len(m.body.info) >= 1 THEN m.body.info[1] ELSE -1

RequestOk == onc_result.op = "request" /\ onc_result.kind = "Ok"

\* C3: request returns only replies whose xid is the client's last_xid at
\* the time of the call, in the order they arrived; a record with another
\* xid is dropped and is in the result of no request, this one or a later one.
C3_OnlyMatchingReplies ==
    /\ RequestOk =>
         /\ \A i \in 1..Len(onc_result.responses) :
                /\ onc_result.responses[i].xid = req_xid
                /\ \A d \in discarded : d.msg # onc_result.responses[i]
         /\ \A i \in 1..(Len(onc_result.responses) - 1) :
                Serial(onc_result.responses[i]) < Serial(onc_result.responses[i + 1])
    /\ \A d \in discarded :
         /\ d.msg.xid # d.req
         /\ \A i \in 1..Len(responses) : responses[i] # d.msg

\* C3 witness: a record carrying the xid of the second request was dropped
\* during the first, and the second request has returned its replies
C3_Witness ==
    /\ RequestOk
    /\ n_returned = 2
    /\ Len(onc_result.responses) >= 1
    /\ \E d \in discarded : d.req = 0 /\ d.msg.xid = req_xid

C7_RecordMarker ==
    last_packet # <<>> =>
        /\ Len(last_packet) >= 4
        /\ last_packet[1] >= 128
        /\ HasMarker(from_be_bytes(Take(last_packet, 4)))
        /\ AndNotMarker(from_be_bytes(Take(last_packet, 4))) = Len(last_packet) - 4
        /\ unpack_words(Drop(last_packet, 4), 2).kind = "ok"
        /\ unpack_words(Drop(last_packet, 4), 2).val
               = <<sent_xids[Len(sent_xids)], 0>>

\* C7 witness: a CALL with an 8-byte argument has been written
C7_Witness == last_packet # <<>> /\ Len(last_packet) = 4 + 40 + 8

\* C8 (as claimed): a reply that arrives in two fragments is decoded once,
\* from the concatenation of the fragments: nothing is decoded before the
\* last fragment, and the request returns the one message of the whole buffer.
C8_FragmentsConcatenated ==
    frag_whole # <<>> =>
        /\ onc_pc = "reading" => responses = <<>>
        /\ onc_pc # "reading" =>
              /\ RequestOk
              /\ onc_result.responses = <<unpack_message(frag_whole).val>>

\* C9: XDR encode/decode is a round trip.  An opaque (and a String) packs
\* to its 4-byte length, its bytes and zero padding up to a multiple of 4,
\* and unpack_opaque gives the bytes back and consumes exactly the packed
\* form; a u32, an i32 and a bool pack to 4 bytes and decode to themselves.
C9_XdrRoundTrip ==
    /\ xdr_op \in {"opaque", "string"} =>
         /\ xdr_packed = to_be_bytes(Len(xdr_in[1])) \o xdr_in[1]
                            \o Zeros((4 - (Len(xdr_in[1]) % 4)) % 4)
         /\ Len(xdr_packed) % 4 = 0
         /\ xdr_out.kind = "ok"
         /\ xdr_out.val = xdr_in[1]
         /\ xdr_out.rest = xdr_in[2]
    /\ xdr_op \in {"u32", "i32"} =>
         /\ Len(xdr_packed) = 4
         /\ xdr_out.kind = "ok"
         /\ xdr_out.val = xdr_in[1]
         /\ xdr_out.rest = xdr_in[2]
    /\ xdr_op = "bool" =>
         /\ Len(xdr_packed) = 4
         /\ xdr_out.kind = "ok"
         /\ (xdr_out.val # 0) = xdr_in[1]
         /\ xdr_out.val \in {0, 1}
         /\ xdr_out.rest = xdr_in[2]

\* C9 witness: a 3-byte opaque followed by other bytes has been packed and
\* unpacked
C9_Witness ==
    /\ xdr_op = "opaque"
    /\ Len(xdr_in[1]) = 3
    /\ xdr_in[2] = <<0, 0, 0, 9>>
    /\ xdr_out.kind = "ok"
    /\ Len(xdr_packed) = 8

\* C10 (as claimed): a decoder given a buffer shorter than the value it must
\* read returns BadResponse, and so does unpack_opaque when the bytes after
\* the data are not zero padding.
C10_ShortOrBadPaddingIsBadResponse ==
    xdr_op \in {"short", "truncated", "badpad"} => xdr_out.kind = "BadResponse"


-----------------------------------------------------------------------------
(* Properties of the VXI-11 transport, checked under SpecLink *)

\* the end bit (bit 3) of the flags word of a request
EndFlag(req) == (req.flags \div 8) % 2 = 1

\* the data of a sequence of requests or replies, concatenated
RECURSIVE ConcatData(_)
ConcatData(s) == IF s = <<>> THEN <<>> ELSE Head(s).data \o ConcatData(Tail(s))

\* the least n with n * b >= a
Ceiling(a, b) == CHOOSE n \in 0..a : n * b >= a /\ (n = 0 \/ (n - 1) * b < a)

\* a write is in progress or was the last call to return, on a link whose
\* max_recv_size is at least 1
InWrite ==
    /\ link = "Some"
    /\ max_recv_size >= 1
    /\ link_pc = "writing" \/ link_result.op = "write"

\* C1: write(p) on a link with max_recv_size = M >= 1 emits DeviceWrite calls
\* in order, each with at most M data bytes, whose data concatenated is a
\* prefix of p; the call number ceil(|p|/M), and no other, carries end = 1;
\* the last packet on the wire is the last call; and when write returns Ok
\* there were exactly ceil(|p|/M) calls and their data concatenated is p.
C1_WriteChunks ==
    InWrite =>
        /\ \A i \in 1..Len(dev_calls) :
              /\ dev_calls[i].proc = DeviceWriteProc
              /\ dev_calls[i].lid = link_id
              /\ Len(dev_calls[i].data) <= max_recv_size
              /\ EndFlag(dev_calls[i]) <=> i = Ceiling(Len(op_data), max_recv_size)
        /\ Len(dev_calls) <= Ceiling(Len(op_data), max_recv_size)
        /\ ConcatData(dev_calls) = Take(op_data, Len(ConcatData(dev_calls)))
        /\ dev_calls # <<>> =>
              \E xid \in 0..last_xid :
                 last_packet = FramePacket(core_call_packet(xid, DeviceWriteProc,
                                   pack_device_write(dev_calls[Len(dev_calls)])))
        /\ link_result.kind = "Ok" =>
              /\ Len(dev_calls) = Ceiling(Len(op_data), max_recv_size)
              /\ ConcatData(dev_calls) = op_data

\* a write of 5 bytes over a link of max_recv_size 2 returned Ok after 3
\* calls, the last one with a single byte
C1_Witness ==
    /\ InWrite
    /\ link_result.kind = "Ok"
    /\ Len(op_data) = 5
    /\ max_recv_size = 2
    /\ Len(dev_calls) = 3
    /\ Len(dev_calls[3].data) = 1

\* the END bit (bit 2) of the reason word of a reply of the peer
ReplyHasEnd(reply) == reply.reason \in {4, 5, 6, 7}

\* a recv is in progress or was the last call to return
InRecv ==
    /\ link = "Some"
    /\ link_pc = "receiving" \/ link_result.op = "recv"

\* C2: over error-free DeviceRead replies, recv issues DeviceRead calls of
\* request_size 65536 only; no reply before the last one received carries
\* END and, while recv goes on, none does (no call follows a reply with
\* END); and when recv returns Ok there was one call per reply, the last
\* reply carries END, and the value returned is the data of the replies
\* concatenated in order.
C2_RecvUntilEnd ==
    InRecv =>
        /\ \A i \in 1..Len(dev_calls) :
              /\ dev_calls[i].proc = DeviceReadProc
              /\ dev_calls[i].request_size = 65536
              /\ dev_calls[i].lid = link_id
        /\ \A i \in 1..(Len(read_replies) - 1) : ~ReplyHasEnd(read_replies[i])
        /\ link_pc = "receiving" =>
              \A i \in 1..Len(read_replies) : ~ReplyHasEnd(read_replies[i])
        /\ dev_calls # <<>> =>
              \E xid \in 0..last_xid :
                 last_packet = FramePacket(core_call_packet(xid, DeviceReadProc,
                                   pack_device_read(dev_calls[Len(dev_calls)])))
        /\ link_result.kind = "Ok" =>
              /\ Len(dev_calls) = Len(read_replies)
              /\ read_replies # <<>>
              /\ ReplyHasEnd(read_replies[Len(read_replies)])
              /\ link_result.val = ConcatData(read_replies)

\* a recv returned Ok with the data of three replies, END on the third
C2_Witness ==
    /\ InRecv
    /\ link_result.kind = "Ok"
    /\ Len(read_replies) = 3
    /\ Len(dev_calls) = 3
    /\ read_replies[1].data = <<65>>
    /\ read_replies[2].data = <<66, 66, 66, 66, 66>>
    /\ link_result.val = <<65, 66, 66, 66, 66, 66, 65>>

\* the bytes of a sequence of words below 2^31, each big-endian on 4 bytes
RECURSIVE WordBytes(_)
WordBytes(ws) ==
    IF ws = <<>> THEN <<>>
    ELSE << (Head(ws) \div 16777216) % 256, (Head(ws) \div 65536) % 256,
            (Head(ws) \div 256) % 256, Head(ws) % 256 >> \o WordBytes(Tail(ws))

\* the record of the GETPORT call for (395183, 1, TCP): the last-fragment
\* header of 56 bytes, xid 0, CALL, RPC version 2, program 100000 version 2
\* procedure 3, null credentials and verifier, then prog, vers, prot, port 0
ExpectedGetPort ==
    <<128, 0, 0, 56>>
        \o WordBytes(<<0, 0, 2, 100000, 2, 3, 0, 0, 0, 0, 395183, 1, 6, 0>>)

\* the record of the CreateLink call: the header of 64 bytes, xid 0, CALL,
\* RPC version 2, program 395183 version 1 procedure 10, null credentials
\* and verifier, then client_id 1, lock_device false, lock_timeout 10000,
\* and "inst0" as a string of 5 bytes padded to 8
ExpectedCreateLink ==
    <<128, 0, 0, 64>>
        \o WordBytes(<<0, 0, 2, 395183, 1, 10, 0, 0, 0, 0, 1, 0, 10000, 5>>)
        \o <<105, 110, 115, 116, 48, 0, 0, 0>>

\* the steps of the session setup, in order
SetupOrder ==
    << <<"tcp_connect", "portmap">>, <<"call", "portmap">>, <<"reply", "portmap">>,
       <<"tcp_connect", "core">>, <<"call", "core">>, <<"reply", "core">> >>

\* C11: connect performs the steps of the session setup in order and stops at
\* the first that fails: the TCP connect to the portmapper, one GETPORT call
\* for (395183, 1, TCP) and its reply, the TCP connect of a new client to the
\* port of that reply, the CreateLink(1, false, 10000, "inst0") call on it
\* and its reply; the portmapper is called at most once per connect; the
\* transport holds a link exactly when all the steps were done, and then its
\* link_id and max_recv_size are those of the CreateLink reply.
C11_SessionSetup ==
    /\ Len(setup_log) <= 6
    /\ \A i \in 1..Len(setup_log) :
          <<setup_log[i].ev, setup_log[i].to>> = SetupOrder[i]
    /\ Len(setup_log) >= 2 => setup_log[2].data = ExpectedGetPort
    /\ Len(setup_log) >= 4 => setup_log[4].data = setup_log[3].data
    /\ Len(setup_log) >= 5 => setup_log[5].data = ExpectedCreateLink
    /\ (link = "Some") <=> (Len(setup_log) = 6)
    /\ link = "Some" => setup_log[6].data = <<link_id, max_recv_size>>
    /\ (link_result.op = "connect" /\ link_result.kind = "Ok") => link = "Some"
    /\ (link_result.op = "connect" /\ link = "None") => link_result.kind = "Err"

\* connect returned Ok after the six steps, with port 1024, link 7 and a
\* max_recv_size of 2
C11_Witness ==
    /\ link_result.op = "connect"
    /\ link_result.kind = "Ok"
    /\ link = "Some"
    /\ Len(setup_log) = 6
    /\ setup_log[3].data = <<1024>>
    /\ link_id = 7
    /\ max_recv_size = 2

\* C12: after disconnect has returned, the transport holds no link.
C12_DisconnectDropsLink ==
    link_result.op = "disconnect" => link = "None"

\* the calls of the VXI transport that look for the link first
GuardedCalls == {"write", "recv", "flush_rx"}

\* C14: a send, recv or flush_rx on a VXI transport that is not connected
\* returns Err(Unspecified) and starts no I/O: so it is without a link, and
\* so it is for the call that follows a disconnect that has returned.
C14_NotConnectedRefused ==
    [][ /\ (link' = "None" /\ link_result'.op \in GuardedCalls)
            => (link_result'.kind = "Err" /\ link_result'.err = "Unspecified")
        /\ (link_result.op = "disconnect" /\ link_call'.name \in GuardedCalls)
            => /\ link_pc' = "idle"
               /\ link_result'.kind = "Err"
               /\ link_result'.err = "Unspecified" ]_vars

\* C15: recv_raw and recv_until of the VXI transport return
\* Err(Unimplemented) whatever the arguments and whether or not a link is
\* held, and the step changes nothing of the ONC client, of its stream or of
\* the link (no call is written, no reply is read).
C15_RawReadsUnimplemented ==
    [][ (VxiRecvRaw \/ VxiRecvUntil) =>
           /\ link_result'.op \in {"recv_raw", "recv_until"}
           /\ link_result'.kind = "Err"
           /\ link_result'.err = "Unimplemented"
           /\ link_result'.val = <<>>
           /\ dev_calls' = <<>>
           /\ UNCHANGED <<oncVars, link, link_id, max_recv_size, link_pc>> ]_vars

\* recv_raw returned on a transport that holds a link and whose stream has
\* a CALL behind it
C15_Witness ==
    /\ link_result.op = "recv_raw"
    /\ link_result.err = "Unimplemented"
    /\ link = "Some"
    /\ last_packet # <<>>

\* C20: flush_rx of the VXI transport is one recv: DeviceRead calls of the
\* link until the first reply with END and none after it; when it returns Ok
\* there was one call per reply, the last reply and no other carries END, and
\* the data of the replies is not returned; this with a timeout of 0 as
\* well; and when the recv fails, flush_rx returns its error.
C20_FlushIsOneRecv ==
    link_result.op = "flush_rx" =>
        /\ link_call.name = "flush_rx"
        /\ link_result.val = <<>>
        /\ \A i \in 1..Len(dev_calls) : dev_calls[i] = DeviceReadReq
        /\ \A i \in 1..(Len(read_replies) - 1) : ~ReplyHasEnd(read_replies[i])
        /\ link_result.kind = "Ok" =>
              /\ link = "Some"
              /\ Len(dev_calls) = Len(read_replies)
              /\ read_replies # <<>>
              /\ ReplyHasEnd(read_replies[Len(read_replies)])
        /\ link_result.kind = "Err" =>
              \/ link = "None" /\ dev_calls = <<>>
              \/ /\ Len(dev_calls) = Len(read_replies) + 1
                 /\ \A i \in 1..Len(read_replies) : ~ReplyHasEnd(read_replies[i])

\* flush_rx with a timeout of 0 returned Ok after two DeviceRead calls whose
\* replies carried data
C20_Witness ==
    /\ link_result.op = "flush_rx"
    /\ link_result.kind = "Ok"
    /\ link_call.timeout = 0
    /\ Len(dev_calls) = 2
    /\ ConcatData(read_replies) # <<>>


-----------------------------------------------------------------------------
(* Properties of the shared ONC client, checked under SpecConc *)

\* C5: at most one task has a CALL written whose reply read has not returned;
\* that task holds the lock of the client and the lock of the stream; and on
\* the stream every CALL written is followed, before any other CALL, by the
\* end of its own reply read.
C5_OneOutstanding ==
    /\ Cardinality(Outstanding) <= 1
    /\ \A t \in Outstanding : client_lock = t /\ stream_lock = t
    /\ \A i \in 1..Len(wire_log) :
          wire_log[i].ev = "call" =>
             IF i = Len(wire_log)
             THEN Outstanding = {wire_log[i].task}
             ELSE wire_log[i + 1] = WireEvent("done", wire_log[i].task, wire_log[i].xid)

\* a task has a CALL outstanding while another task, which completed a
\* request before, waits for the lock of the client
C5_Witness ==
    \E t \in Tasks, u \in Tasks :
        /\ t # u
        /\ task_pc[t] = "reading"
        /\ task_pc[u] = "waiting"
        /\ Len(wire_log) = 3
        /\ wire_log[1].task = u
        /\ wire_log[2] = WireEvent("done", u, 0)
        /\ wire_log[3] = WireEvent("call", t, 1)


-----------------------------------------------------------------------------
(* Properties of the stream transports, checked under SpecStream *)

\* the last call returned, and was made on a transport with a stream
Returned(op) == st_result.op = op /\ st_result.was = "Some"

\* C16: recv_raw without a length, on a transport with a stream, returns Ok.
C16_RawReadWithoutLengthSucceeds ==
    (Returned("recv_raw") /\ st_result.arg.len = NoValue) =>
        st_result.kind = "Ok"

\* C17: recv_raw(Some(n), Some(t)) on a transport with a stream either
\* returns Ok with exactly the n bytes it read from the stream, or fails
\* with Timeout at the deadline having read fewer than n bytes, and returns
\* no bytes.
C17_TimedRawRead ==
    (Returned("recv_raw") /\ st_result.arg.len # NoValue
                          /\ st_result.arg.timeout # NoValue) =>
        IF st_result.kind = "Ok"
        THEN /\ st_result.val = st_result.taken
             /\ Len(st_result.val) = st_result.arg.len
        ELSE /\ st_result.err = "Timeout"
             /\ st_result.val = <<>>
             /\ Len(st_result.taken) < st_result.arg.len
             /\ st_result.at >= st_result.arg.start + st_result.arg.timeout

\* the elements of a sequence
Range(s) == {s[i] : i \in 1..Len(s)}

\* C18: recv_until(b, t) on a transport with a stream never waits beyond
\* t after its start and holds no b while it waits; a call that returns Ok
\* returns, before the deadline, exactly the bytes it read from the stream,
\* which end with b and hold b nowhere else; a call that fails has read no
\* b, returns no bytes, and fails with Timeout at the deadline (or, when the
\* stream has ended, with IoError before it).
C18_RecvUntil ==
    /\ st_pc = "until" =>
          /\ now <= st_arg.start + st_arg.timeout
          /\ st_deadline = st_arg.start + st_arg.timeout
          /\ st_buf = st_taken
          /\ st_arg.byte \notin Range(st_buf)
    /\ Returned("recv_until") =>
          /\ st_result.kind = "Ok" =>
                /\ st_result.val = st_result.taken
                /\ st_result.val # <<>>
                /\ st_result.val[Len(st_result.val)] = st_result.arg.byte
                /\ \A i \in 1..(Len(st_result.val) - 1) :
                      st_result.val[i] # st_result.arg.byte
                /\ st_result.at < st_result.arg.start + st_result.arg.timeout
          /\ st_result.kind = "Err" =>
                /\ st_result.val = <<>>
                /\ st_result.arg.byte \notin Range(st_result.taken)
                /\ \/ /\ st_result.err = "Timeout"
                      /\ st_result.at = st_result.arg.start + st_result.arg.timeout
                   \/ /\ st_result.err = "IoError"
                      /\ st_closed
                      /\ st_result.at < st_result.arg.start + st_result.arg.timeout

\* C18 as first stated: a recv_until that returns no bytes has failed with
\* Timeout.
C18_FailsWithTimeoutOnly ==
    (Returned("recv_until") /\ st_result.kind = "Err") =>
        st_result.err = "Timeout"

\* a recv_until for LF returned the LF after an instant of waiting, and the
\* byte sent after the LF is still unread
C18_Witness ==
    /\ Returned("recv_until")
    /\ st_result.kind = "Ok"
    /\ st_result.val = <<10>>
    /\ st_result.at > st_result.arg.start
    /\ st_inbound = <<65>>

\* a recv_until for LF returned 'A', LF
C18_WitnessTwoBytes ==
    /\ Returned("recv_until")
    /\ st_result.kind = "Ok"
    /\ st_result.val = <<65, 10>>

\* a recv_until timed out after it had read a byte that is not the one
\* awaited
C18_WitnessTimeout ==
    /\ Returned("recv_until")
    /\ st_result.err = "Timeout"
    /\ st_result.taken # <<>>
    /\ st_result.arg.timeout > 0

\* C19: when flush_rx with a timeout above 0 returns Ok, no byte is left
\* unread and no byte has arrived in the `timeout` before it returned.
C19_FlushUntilQuiet ==
    (Returned("flush_rx") /\ st_result.kind = "Ok"
                          /\ st_result.arg.timeout > 0) =>
        /\ st_result.pending = 0
        /\ \/ st_result.last_rx = NoValue
           \/ st_result.last_rx < st_result.arg.start
           \/ st_result.at - st_result.last_rx >= st_result.arg.timeout

-----------------------------------------------------------------------------
(* Properties of connect and disconnect, checked under SpecSession *)

\* C13: connect on an OncClient that holds a stream, on a TCP or serial
\* transport that holds a stream, or on a VXI transport that holds a link
\* returns Err(Unspecified), opens nothing and leaves the connection as it
\* was (the stream, its pending bytes and its close, the xid, the link and
\* its values); disconnect of a TCP or serial transport leaves it without a
\* stream, and the connect that follows is not refused as already connected.
C13_ConnectOnce ==
    [][ /\ (st_stream = "Some" /\ StreamConnect) =>
              /\ st_result'.kind = "Err"
              /\ st_result'.err = "Unspecified"
              /\ UNCHANGED <<st_kind, st_stream, st_inbound, st_closed,
                             st_opens, st_sent, st_last_rx>>
        /\ (stream = "Some" /\ OncConnect) =>
              /\ onc_result'.kind = "Err"
              /\ onc_result'.err = "Unspecified"
              /\ UNCHANGED <<stream, last_xid, inbound, peer_closed, last_packet>>
        /\ (link = "Some" /\ VxiConnect) =>
              /\ link_result'.kind = "Err"
              /\ link_result'.err = "Unspecified"
              /\ UNCHANGED <<oncVars, link, link_id, max_recv_size, setup_log>>
        /\ StreamDisconnect => st_stream' = "None"
        /\ (st_stream = "None" /\ StreamConnect) =>
              /\ st_result'.err # "Unspecified"
              /\ st_result'.kind = "Ok" => (st_stream' = "Some"
                                            /\ st_opens' = st_opens + 1) ]_vars

\* the three kinds of client have each refused a connect: the stream
\* transport on its second stream (opened after a disconnect) with a byte
\* pending, the OncClient on its stream, the VXI transport on its link
C13_Witness ==
    /\ st_result.op = "connect"
    /\ st_result.err = "Unspecified"
    /\ st_stream = "Some"
    /\ st_opens = 2
    /\ st_inbound # <<>>
    /\ onc_result.op = "connect"
    /\ onc_result.err = "Unspecified"
    /\ stream = "Some"
    /\ link_result.op = "connect"
    /\ link_result.err = "Unspecified"
    /\ link = "Some"

-----------------------------------------------------------------------------
(* Properties of the ScpiProtocol facade, checked under SpecScpi *)

\* a send or a query has made its int_send
Sending(name) == sc_call.ev = name /\ sc_log # <<>>

\* C21: send(d) makes one int_send call, and no other call, with d followed
\* by CR LF; when it succeeds on the VXI transport the DeviceWrite calls
\* carry d CR LF in order and the final one, and no other, has END; when it
\* succeeds on a stream transport the bytes written are d CR LF in order
C21_SendAppendsCrLf ==
    Sending("send") =>
        /\ sc_log = <<ScpiEvent("int_send", sc_call.data \o <<13, 10>>)>>
        /\ (sc_result.kind = "Ok" /\ sc_kind = "vxi") =>
              /\ Len(sc_dev) >= 1
              /\ ConcatData(sc_dev) = sc_call.data \o <<13, 10>>
              /\ \A i \in 1..Len(sc_dev) : EndFlag(sc_dev[i]) <=> i = Len(sc_dev)
        /\ (sc_result.kind = "Ok" /\ sc_kind \in {"tcp", "serial"}) =>
              sc_wire = sc_call.data \o <<13, 10>>

\* a send of two bytes succeeded on a link that takes them and CR LF in two
\* DeviceWrite calls
C21_Witness ==
    /\ Sending("send")
    /\ sc_kind = "vxi"
    /\ sc_result.kind = "Ok"
    /\ Len(sc_call.data) = 2
    /\ Len(sc_dev) = 2

\* C22: query(d) makes the int_send of d CR LF first; when that succeeded it
\* makes one int_recv after it and nothing else, and the int_recv begins
\* with all of the send done; when the send failed, no int_recv is made and
\* the query returns what the send returned
C22_QuerySendsThenReceives ==
    Sending("query") =>
        /\ sc_log[1] = ScpiEvent("int_send", sc_call.data \o <<13, 10>>)
        /\ sc_sent.kind = "Ok" =>
              /\ sc_log = <<sc_log[1], ScpiEvent("int_recv", <<>>)>>
              /\ sc_kind \in {"tcp", "serial"} => sc_wire = sc_call.data \o <<13, 10>>
              /\ sc_kind = "vxi" => ConcatData(sc_dev) = sc_call.data \o <<13, 10>>
        /\ sc_sent.kind # "Ok" =>
              /\ sc_log = <<sc_log[1]>>
              /\ sc_pc # "receiving"
              /\ sc_result = LinkResult("query", sc_sent)

\* a query whose send failed on the second DeviceWrite has returned
C22_Witness ==
    /\ Sending("query")
    /\ sc_kind = "vxi"
    /\ sc_sent.kind = "Err"
    /\ Len(sc_dev) = 2
    /\ sc_result.op = "query"

\* C23: a recv that succeeds on a stream transport returns a byte sequence
\* that is not empty, ends with '\n', has no other '\n', and is the bytes
\* read from the stream up to and including the first '\n'
C23_RecvReturnsOneLine ==
    (/\ sc_kind \in {"tcp", "serial"}
     /\ sc_call.ev \in {"recv", "query"}
     /\ sc_pc = "idle"
     /\ sc_result.kind = "Ok") =>
        /\ sc_result.val # <<>>
        /\ sc_result.val[Len(sc_result.val)] = 10
        /\ \A i \in 1..(Len(sc_result.val) - 1) : sc_result.val[i] # 10
        /\ sc_result.val = SubSeq(sc_taken, 1, FirstIndex(sc_taken, 10))

-----------------------------------------------------------------------------
(* Device errors in the replies of DeviceWrite and DeviceRead, checked     *)
(* under SpecLink                                                          *)

\* device error codes of a reply: SyntaxError, IoTimeout, IoError, and one
\* that RpcDeviceErrorCode::unpack gives as Unknown
DeviceErrors == {1, 15, 17, 30}

\* what write_packet and recv_packet make of a reply that carries a device
\* error, whatever else it carries (a size, or data with any reason)
DeviceErrorOutcomes ==
    { [error |-> code,
       out |-> Decoded(read_response(Record(TRUE,
                          SuccessReply(0, Words2(code, size))), FALSE, 0, <<>>),
                       unpack_device_write)]
        : code \in DeviceErrors, size \in {0, 1} }
    \cup
    { [error |-> code,
       out |-> Decoded(read_response(Record(TRUE,
                          SuccessReply(0, pack_opaque(d, Words2(code, reason)))),
                          FALSE, 0, <<>>),
                       unpack_device_read)]
        : code \in DeviceErrors, d \in ReadData, reason \in ReadReasons }

\* C26: a DeviceWrite or DeviceRead reply with a device error is an error
\* that names the device error and holds no data, whatever else the reply
\* carries; a write or recv that returned it made the failed call last,
\* each call once (the chunks after the failed one are not sent, no
\* DeviceRead follows), and returns none of the data of the earlier replies
C26_DeviceErrorAborts ==
    /\ \A r \in DeviceErrorOutcomes :
          r.out = [kind |-> "Err", err |-> "Unspecified", val |-> <<>>,
                   dev |-> r.error]
    /\ (link_result.dev # 0 /\ link_result.op \in {"write", "recv", "flush_rx"}) =>
          /\ link_result.kind = "Err"
          /\ link_result.err = "Unspecified"
          /\ link_result.val = <<>>
          /\ link_pc = "idle"
          /\ link_result.op = "write" =>
                /\ Len(dev_calls) = op_index + 1
                /\ \A i \in 1..Len(dev_calls) :
                      dev_calls[i].data = Chunk(op_data, max_recv_size, i - 1)
          /\ link_result.op # "write" =>
                /\ Len(dev_calls) = Len(read_replies) + 1
                /\ op_result = ConcatData(read_replies)

\* a write of three chunks failed with IoTimeout on the second: two calls
C26_Witness ==
    /\ link_result.op = "write"
    /\ link_result.dev = 15
    /\ Len(dev_calls) = 2
    /\ Len(op_data) > 2 * max_recv_size

\* a recv failed with IoError after replies that carried data
C26_WitnessRecv ==
    /\ link_result.op = "recv"
    /\ link_result.dev = 17
    /\ op_result # <<>>
    /\ link_result.val = <<>>

-----------------------------------------------------------------------------
(* Properties of the parsers and decoders, checked under SpecFn *)

\* the positions of the character c in s
Positions(s, c) == {i \in 1..Len(s) : s[i] = c}

\* where the field number k of s begins and ends, the fields being what
\* lies between the characters c: it begins after the (k-1)th c and ends
\* before the kth
FieldStart(s, c, k) ==
    IF k = 1 THEN 1
    ELSE 1 + CHOOSE i \in Positions(s, c) :
                 Cardinality({j \in Positions(s, c) : j < i}) = k - 2
FieldEnd(s, c, k) ==
    IF k > Cardinality(Positions(s, c)) THEN Len(s)
    ELSE (CHOOSE i \in Positions(s, c) :
              Cardinality({j \in Positions(s, c) : j < i}) = k - 1) - 1
FieldOf(s, c, k) == SubSeq(s, FieldStart(s, c, k), FieldEnd(s, c, k))

\* s holds the lower-case word w in letters of either case
HasWord(s, w) ==
    \E i \in 0..(Len(s) - Len(w)) :
        \A k \in 1..Len(w) : s[i + k] = w[k] \/ LowerChar(s[i + k]) = w[k]

\* C25: from_idn fails exactly when the response has fewer than two
\* comma-separated fields (no comma); otherwise manufacturer and model are
\* fields 1 and 2, serial and version are fields 3 and 4 when the response
\* has them, and a manufacturer that is neither Rigol nor Siglent, or a
\* model of theirs that is not known, gives the Unknown family, not an error
C25_FromIdn ==
    fn_op = "from_idn" =>
        /\ fn_out.kind = "Err" <=> Positions(fn_in, ",") = {}
        /\ fn_out.kind = "Err" => fn_out.err = "Unspecified"
        /\ fn_out.kind = "Ok" =>
              /\ fn_out.val.manufacturer = FieldOf(fn_in, ",", 1)
              /\ fn_out.val.model = FieldOf(fn_in, ",", 2)
              /\ fn_out.val.serial =
                    IF Cardinality(Positions(fn_in, ",")) >= 2
                    THEN Some(FieldOf(fn_in, ",", 3)) ELSE None
              /\ fn_out.val.version =
                    IF Cardinality(Positions(fn_in, ",")) >= 3
                    THEN Some(FieldOf(fn_in, ",", 4)) ELSE None
              /\ fn_out.val.man_family.man =
                    IF HasWord(FieldOf(fn_in, ",", 1), <<"r", "i", "g", "o", "l">>)
                    THEN "Rigol"
                    ELSE IF HasWord(FieldOf(fn_in, ",", 1),
                                    <<"s", "i", "g", "l", "e", "n", "t">>)
                    THEN "Siglent"
                    ELSE "Unknown"
              /\ fn_out.val.man_family.man = "Unknown" =>
                    fn_out.val.man_family.family = "Unknown"
              /\ (/\ fn_out.val.man_family.man = "Rigol"
                  /\ ~HasWord(FieldOf(fn_in, ",", 2), <<"d", "s", "1", "2">>)
                  /\ ~HasWord(FieldOf(fn_in, ",", 2), <<"d", "p", "8">>)
                  /\ ~HasWord(FieldOf(fn_in, ",", 2), <<"d", "p", "2">>)) =>
                    fn_out.val.man_family.family = "Unknown"

\* a response of four fields, of a Rigol whose model is not known
C25_Witness ==
    /\ fn_op = "from_idn"
    /\ Cardinality(Positions(fn_in, ",")) = 3
    /\ fn_out.kind = "Ok"
    /\ fn_out.val.man_family = [man |-> "Rigol", family |-> "Unknown"]
    /\ fn_out.val.serial.some
    /\ fn_out.val.serial.val # <<>>

\* the names of the accept status 1..5 (onc.rs:334-339) and of the reject
\* status 0..1 (onc.rs:379-380)
AcceptNames == <<"ProgUnavail", "ProgMismatch", "ProcUnavail", "GarbageArgs", "SystemErr">>
RejectNames == <<"Mismatch", "AuthError">>

\* every discriminant of the message m is one that the decoders know
KnownMessage(m) ==
    \/ m.mtype = 0
    \/ /\ m.mtype = 1
       /\ \/ m.stat = 0 /\ m.sub \in 0..5
          \/ m.stat = 1 /\ m.sub = 0
          \/ m.stat = 1 /\ m.sub = 1 /\ m.words[1] \in 0..14

\* C27: get_success_result gives the payload exactly for a REPLY (1) that is
\* accepted (0) with SUCCESS (0); for a CALL, for a rejection (RPC mismatch
\* or auth error) and for the accept status 1..5 it gives Unspecified, which
\* names the variant decoded and its words; a message with a discriminant
\* that is not known does not reach it: unpack fails with BadResponse
C27_SuccessResult ==
    fn_op = "get_success_result" =>
        /\ fn_out.kind = "Ok" <=>
              (fn_in.mtype = 1 /\ fn_in.stat = 0 /\ fn_in.sub = 0)
        /\ fn_out.kind = "Ok" => fn_out.val = fn_in.payload
        /\ ~KnownMessage(fn_in) =>
              fn_out = [kind |-> "Err", err |-> "BadResponse", val |-> <<>>,
                        what |-> [tag |-> "", info |-> <<>>]]
        /\ (KnownMessage(fn_in) /\ fn_out.kind # "Ok") =>
              /\ fn_out.err = "Unspecified"
              /\ fn_out.val = <<>>
              /\ fn_out.what =
                    IF fn_in.mtype = 0 THEN [tag |-> "Call", info |-> <<>>]
                    ELSE IF fn_in.stat = 0
                    THEN [tag |-> AcceptNames[fn_in.sub], info |-> fn_in.words]
                    ELSE [tag |-> RejectNames[fn_in.sub + 1], info |-> fn_in.words]

\* an accepted reply with PROG_MISMATCH was decoded and refused
C27_Witness ==
    /\ fn_op = "get_success_result"
    /\ fn_in.mtype = 1
    /\ fn_in.stat = 0
    /\ fn_in.sub = 2
    /\ fn_out.err = "Unspecified"
    /\ fn_out.what = [tag |-> "ProgMismatch", info |-> <<1, 3>>]

\* C28: request_port(prog, vers, prot) on a new client writes one record:
\* the last-fragment header of 56 bytes, then xid 0, CALL (0), RPC version 2,
\* program 100000, version 2, procedure 3, a null credential and a null
\* verifier (flavor 0, length 0 each), then prog, vers, prot and port 0,
\* each big-endian on 4 bytes; it returns the port of the first reply, the
\* replies after it being ignored, and BadResponse when that value is
\* above 0xFFFF
C28_RequestPort ==
    fn_op = "request_port" =>
        /\ fn_out.packet =
              <<128, 0, 0, 56>>
                 \o WordBytes(<<0, 0, 2, 100000, 2, 3, 0, 0, 0, 0,
                                fn_in.prog, fn_in.vers, fn_in.prot, 0>>)
        /\ fn_in.ports[1] \in 0..65535 =>
              /\ fn_out.port.kind = "Ok"
              /\ fn_out.port.val = fn_in.ports[1]
        /\ fn_in.ports[1] \notin 0..65535 =>
              /\ fn_out.port.kind = "Err"
              /\ fn_out.port.err = "BadResponse"

\* two replies, the port taken from the first
C28_Witness ==
    /\ fn_op = "request_port"
    /\ fn_in.prot = 6
    /\ fn_in.ports = <<1024, 70000>>
    /\ fn_out.port.kind = "Ok"
    /\ fn_out.port.val = 1024


\* a decimal numeral of a positive integer: digits, at most one '+' before
\* them, not all of them '0'
PositiveInteger(text) ==
    \E d \in {text, IF text # <<>> /\ text[1] = "+" THEN Tail(text) ELSE text} :
        /\ d # <<>>
        /\ IsDigits(d)
        /\ \E i \in 1..Len(d) : d[i] # "0"

\* a serial argument without '=', with an unrecognized key, or with a baud
\* that is not a positive integer
BadArg(a) == ~a.eq \/ a.key # <<"b", "a", "u", "d">> \/ ~PositiveInteger(a.value)

\* the URI has an unknown scheme, a host that does not resolve, or a bad
\* serial argument
Rejected(u) ==
    \/ u.scheme \notin { <<"v", "x", "i", "1", "1", ":", "/", "/">>, <<"t", "c", "p", ":", "/", "/">>, <<"s", "e", "r", "i", "a", "l", ":">> }
    \/ u.net /\ u.dns # "addr"
    \/ /\ ~u.net
       /\ u.args.some
       /\ \/ u.args.val = <<>>
          \/ \E i \in 1..Len(u.args.val) : BadArg(u.args.val[i])

\* C24: the URI dispatcher returns InvalidArgument, without constructing or
\* connecting any transport, for every URI with an unknown scheme, an
\* unresolvable host, a serial argument without '=', an unrecognized serial
\* key, or a baud that is not a positive integer; vxi11://host without a
\* port uses port 111 and serial:path without a baud uses 9600.
C24_UriDispatch ==
    fn_op = "from_uri" =>
        /\ Rejected(fn_in.uri) =>
                fn_out = Dispatched("Err", "InvalidArgument", None, FALSE)
        /\ /\ fn_in.uri.scheme = <<"v", "x", "i", "1", "1", ":", "/", "/">>
           /\ ~fn_in.uri.port.some
           /\ fn_in.uri.dns = "addr"
           => /\ fn_out.made.some
              /\ fn_out.made.val.kind = "vxi"
              /\ fn_out.made.val.socket.port = 111
        /\ /\ fn_in.uri.scheme = <<"s", "e", "r", "i", "a", "l", ":">>
           /\ ~fn_in.uri.args.some
           => /\ fn_out.made.some
              /\ fn_out.made.val.kind = "serial"
              /\ fn_out.made.val.baud = 9600


-----------------------------------------------------------------------------
(* Properties of the waveform reader, checked under SpecDrv and            *)
(* SpecDrvLive                                                             *)

\* '#' and a digit 1..9
DefiniteLength(prefix) == prefix[1] = 35 /\ prefix[2] \in 49..57

\* read_preamble has returned Ok and nothing was read since
PreambleRead == drv_pc = "loop" /\ drv_sample = 0 /\ drv_values = <<>>

\* C30: read_header accepts only IEEE-488.2 definite-length headers: the
\* first byte read is '#', the second a digit N in 1..9, and it then reads
\* exactly N further bytes, so that for "#3346" and 346 bytes read_preamble
\* reads exactly 5 + 346 bytes; a prefix that is not '#' and a digit 1..9
\* gives an error, not a read of a wrong number of bytes or an abort.
C30_ReadHeader ==
    /\ drv_hdr.prefix # <<>> =>
            IF DefiniteLength(drv_hdr.prefix)
            THEN /\ drv_hdr.kind \in {"Ok", "Err"}
                 /\ drv_hdr.length = drv_hdr.prefix[2] - 48
            ELSE /\ drv_hdr.kind = "Err"
                 /\ drv_hdr.length = -1
    /\ PreambleRead /\ drv_hdr.prefix = <<35, 51>> => drv_taken = 5 + DescSize

\* the sends of data in the calls made
SendsOf(data) == { i \in 1..Len(drv_log) : drv_log[i] = DrvSend(data) }

\* the samples of window i (from 1) of a waveform of P points
WindowSize(P, i) ==
    IF P - (WindowPoints * (i - 1)) > WindowPoints THEN WindowPoints
    ELSE P - (WindowPoints * (i - 1))

\* the windows read so far are the first ones of the waveform, each read
\* with one query and one recv_raw of its bytes, and lie in the response in
\* the order they have in the values
WindowsInOrder ==
    /\ \/ Len(drv_values) = Cardinality(SendsOf(":WAV:DATA?"))
       \/ /\ drv_pc \in {"done", "panicked"}
          /\ drv_result.kind # "Ok"
          /\ Len(drv_values) = Cardinality(SendsOf(":WAV:DATA?")) - 1
    /\ \A i \in 1..Len(drv_values) :
        /\ drv_values[i].count = WindowSize(drv_desc.n_points, i)
        /\ drv_values[i].count \in 1..WindowPoints
        /\ \E k \in SendsOf(":WAV:DATA?") :
            /\ Cardinality({j \in SendsOf(":WAV:DATA?") : j <= k}) = i
            /\ drv_log[k + 3] = DrvRecvRaw(drv_values[i].count * drv_values[i].width, 3)
        /\ i > 1 =>
            drv_values[i].at
                >= drv_values[i - 1].at + (drv_values[i - 1].count * drv_values[i - 1].width)
    /\ drv_sample = WindowPoints * Len(drv_values)
        \/ (drv_sample = drv_desc.n_points /\ Len(drv_values) > 0)

\* ceil(P / 20000)
Windows(P) == (P + (WindowPoints - 1)) \div WindowPoints

\* read_waveform has returned Ok(waveform)
WaveformRead == drv_pc = "done" /\ drv_result.kind = "Ok"

WaveformComplete ==
    WaveformRead =>
        /\ Cardinality(SendsOf(":WAV:DATA?")) = Windows(drv_desc.n_points)
        /\ Len(drv_values) = Windows(drv_desc.n_points)
        /\ drv_sample = drv_desc.n_points
        /\ Cardinality({ i \in 1..Len(drv_log) : drv_log[i].op = "recv" }) = 1
        /\ drv_log[Len(drv_log)] = DrvRecv

\* C29: for every descriptor with n_points = P, read_waveform reads the
\* samples in windows of at most 20000 points: it sends ceil(P/20000)
\* `:WAV:DATA?`, window i reads min(20000, P - 20000*i) samples, the loop
\* ends, the waveform holds P samples in the order of the response, and one
\* recv follows the last window.
C29_ReadWaveform ==
    /\ [](WindowsInOrder /\ WaveformComplete)
    /\ (drv_pc = "loop") ~> (drv_pc \in {"done", "panicked"})

\* a waveform of three windows, the last of one sample, was read
C29_Witness ==
    /\ WaveformRead
    /\ drv_desc.n_points = (WindowPoints * MaxWindows) + 1
    /\ Len(drv_values) = MaxWindows + 1
    /\ drv_values[Len(drv_values)].count = 1

-----------------------------------------------------------------------------
(* Properties of the decoders of the driver, checked under SpecFn          *)

\* C31: WaveDescData::from_bytes succeeds only for an input of exactly 346
\* bytes; for every other length it fails with BadResponse.
C31_FromBytes ==
    fn_op = "from_bytes" =>
        /\ fn_out.kind = "Ok" <=> Len(fn_in) = DescSize
        /\ Len(fn_in) # DescSize => fn_out = FnErr("BadResponse")

\* s is the signed number of the given width whose bit pattern is u
IsSigned(s, u, width) ==
    /\ s \in (0 - (2 ^ (width - 1)))..((2 ^ (width - 1)) - 1)
    /\ (s - u) % (2 ^ width) = 0

\* the raw code a value v was made from: (v + vert_offset) * code_per_div
\* / (attenuation * vert_gain)
CodeOf(v, wavedesc) ==
    FracDiv(FracMul(FracSub(v, FracSub(Frac(0, 1), wavedesc.vert_offset)),
                    wavedesc.code_per_div),
            FracMul(wavedesc.attenuation, wavedesc.vert_gain))

\* the bit pattern of sample i of the bytes raw
RawPattern(raw, i, comm_type) ==
    IF comm_type = 0 THEN raw[i] ELSE raw[(2 * i) - 1] + (256 * raw[2 * i])

SamplesRead == fn_op = "read_samples" /\ fn_out.kind = "Ok"

\* C32: read_samples for a window of count points reads exactly count bytes
\* when comm_type = 0 and 2*count bytes otherwise, reads each byte as an i8
\* or each pair of bytes as a little-endian i16, and appends exactly count
\* values in stream order, each s * (attenuation * vert_gain /
\* code_per_div) - vert_offset for its raw code s.
C32_ReadSamples ==
    SamplesRead =>
        /\ fn_out.calls[Len(fn_out.calls)] =
                DrvRecvRaw(IF fn_in.wavedesc.comm_type = 0 THEN fn_in.count
                           ELSE 2 * fn_in.count, 3)
        /\ Len(fn_out.dest) = Len(fn_in.dest) + fn_in.count
        /\ SubSeq(fn_out.dest, 1, Len(fn_in.dest)) = fn_in.dest
        /\ \A i \in 1..fn_in.count :
            /\ CodeOf(fn_out.dest[Len(fn_in.dest) + i], fn_in.wavedesc).d = 1
            /\ IsSigned(CodeOf(fn_out.dest[Len(fn_in.dest) + i], fn_in.wavedesc).n,
                        RawPattern(fn_in.raw, i, fn_in.wavedesc.comm_type),
                        IF fn_in.wavedesc.comm_type = 0 THEN 8 ELSE 16)

\* two bytes with the top bit set were read as the samples -128 and -1 and
\* appended to a value read before
C32_Witness ==
    /\ SamplesRead
    /\ fn_in.wavedesc.comm_type = 0
    /\ fn_in.raw = <<128, 255>>
    /\ fn_in.dest # <<>>
    /\ Len(fn_out.dest) = 3

\* comm_type 1, vert_gain 0.01, vert_offset 0, code_per_div 25, attenuation
\* 1, and the payload 0x00 0x01 0xFF 0xFF
WordExample ==
    /\ SamplesRead
    /\ fn_in.wavedesc = [comm_type |-> 1, vert_gain |-> Frac(1, 100),
                         vert_offset |-> Frac(0, 1), code_per_div |-> Frac(25, 1),
                         attenuation |-> Frac(1, 1)]
    /\ fn_in.raw = <<0, 1, 255, 255>>
    /\ fn_in.dest = <<>>

\* C33, as stated: the payload 0x00 0x01 0xFF 0xFF decodes to two samples
\* with the raw codes 1 and -1 (1 * 0.01/25 and -1 * 0.01/25).
C33_CodesOneMinusOne ==
    WordExample => fn_out.dest = <<Frac(1, 2500), Frac(-1, 2500)>>

\* C33, amended: the payload 0x00 0x01 0xFF 0xFF decodes to two samples
\* with the raw codes 256 and -1 (256 * 0.01/25 and -1 * 0.01/25): the
\* first of the two bytes is the low one.
C33_CodesLittleEndian ==
    WordExample =>
        /\ fn_out.dest = <<Frac(256, 2500), Frac(-1, 2500)>>
        /\ CodeOf(fn_out.dest[1], fn_in.wavedesc) = Frac(256, 1)
        /\ CodeOf(fn_out.dest[2], fn_in.wavedesc) = Frac(-1, 1)

C33_Witness == WordExample /\ Len(fn_out.dest) = 2

-----------------------------------------------------------------------------
(* Records with another xid, checked under SpecOncLive                     *)

\* the record at the head of the stream has arrived in full
HeadComplete ==
    /\ Len(inbound) >= 4
    /\ Len(inbound) - 4 >= AndNotMarker(from_be_bytes(Take(inbound, 4)))

HeadLast == HasMarker(from_be_bytes(Take(inbound, 4)))

HeadMessage ==
    unpack_message(SubSeq(inbound, 5,
                          4 + AndNotMarker(from_be_bytes(Take(inbound, 4)))))

\* the record at the head decodes, and has the xid awaited or not
HeadMatches == HeadComplete /\ HeadMessage.kind = "ok" /\ HeadMessage.val.xid = last_xid

HeadOther == HeadComplete /\ HeadMessage.kind = "ok" /\ HeadMessage.val.xid # last_xid

\* The records that have arrived in full, in order: does one with the xid
\* awaited and the last-fragment bit come after records that all decode?
RECURSIVE ReplyArrived(_, _)
ReplyArrived(inb, xid) ==
    /\ Len(inb) >= 4
    /\ Len(inb) - 4 >= AndNotMarker(from_be_bytes(Take(inb, 4)))
    /\ LET header == from_be_bytes(Take(inb, 4))
           msg == unpack_message(SubSeq(inb, 5, 4 + AndNotMarker(header)))
       IN  /\ msg.kind = "ok"
           /\ \/ msg.val.xid = xid /\ HasMarker(header)
              \/ ReplyArrived(Drop(inb, 4 + AndNotMarker(header)), xid)

\* request returns (Ok or an error) in this step
Returns == onc_pc = "reading" /\ onc_pc' = "idle"

\* C34, as stated: read_response never ends on a record with another xid,
\* and request returns exactly when a record with the xid awaited and the
\* last-fragment bit has been read; if none ever arrives it never returns.
C34_ReturnsOnlyOnMatchingLast ==
    [][/\ Returns => HeadMatches /\ HeadLast
       /\ onc_pc = "reading" /\ HeadMatches /\ HeadLast /\ OncReadRecord => Returns]_vars

\* C34, amended: a record that decodes and has another xid is skipped,
\* with or without the last-fragment bit; request returns Ok exactly when a
\* record with the xid awaited and the last-fragment bit has been read; it
\* returns an error when the stream ends before a whole record (IoError)
\* or a record does not decode (BadResponse), whatever xid that record has;
\* while the stream is open and the record at its head is not whole,
\* request does not return (no timeout); and once a record with the xid
\* awaited and the last-fragment bit has arrived behind records that all
\* decode, request returns Ok.
C34_SkipsOtherXids ==
    /\ [][/\ ReadTurn <=> OncReadRecord
          /\ onc_pc = "reading" /\ HeadOther /\ OncReadRecord =>
                /\ onc_pc' = "reading"
                /\ responses' = responses
                /\ Len(inbound') < Len(inbound)
          /\ Returns /\ onc_result'.kind = "Ok" => HeadMatches /\ HeadLast
          /\ onc_pc = "reading" /\ HeadMatches /\ HeadLast /\ OncReadRecord =>
                Returns /\ onc_result'.kind = "Ok"
          /\ Returns /\ onc_result'.kind = "Err" =>
                \/ ~HeadComplete /\ peer_closed /\ onc_result'.err = "IoError"
                \/ /\ HeadComplete
                   /\ HeadMessage.kind = "BadResponse"
                   /\ onc_result'.err = "BadResponse"
          /\ onc_pc = "reading" /\ ~HeadComplete /\ ~peer_closed =>
                onc_pc' = "reading"]_vars
    /\ (onc_pc = "reading" /\ ReplyArrived(inbound, last_xid))
            ~> (onc_pc = "idle" /\ onc_result.kind = "Ok")

\* a rejected reply to the next xid, which always has the last-fragment
\* bit, was skipped during a request that then returned Ok
C34_Witness ==
    /\ onc_pc = "idle"
    /\ onc_result.op = "request"
    /\ onc_result.kind = "Ok"
    /\ \E d \in discarded :
        /\ d.req = req_xid
        /\ d.msg.xid = NextXid(req_xid)
        /\ d.msg.body.tag = "Mismatch"

-----------------------------------------------------------------------------
(* Bytes that arrive together with a line, checked under SpecScpi          *)

\* C35: across successful reads of one connected stream transport the
\* bytes returned, put end to end, are a prefix of the bytes the peer sent:
\* recv consumes no byte beyond the '\n' it returns, so bytes that arrived
\* together with a line are returned by the next read and never lost.
C35_NoByteLost ==
    (/\ sc_kind \in {"tcp", "serial"}
     /\ sc_call.ev \in {"recv", "query"}
     /\ sc_pc = "idle"
     /\ sc_result.kind = "Ok") =>
        sc_taken = sc_result.val


-----------------------------------------------------------------------------
(* The xid of the CALLs of concurrent link operations, checked under SpecConc *)

\* the last CALL a task wrote on the stream
LastCallOf(t) ==
    LET calls == {i \in 1..Len(wire_log) :
                     wire_log[i].ev = "call" /\ wire_log[i].task = t}
    IN  wire_log[CHOOSE i \in calls : \A j \in calls : j <= i]

\* C36: while a link operation (create_link, write_packet, recv_packet) of
\* any task reads the replies to its CALL, the xid written in that CALL is
\* the last_xid that read_response compares the replies with.
C36_CallXidIsMatchedXid ==
    \A t \in Outstanding :
        /\ last_packet =
              FramePacket(core_call_packet(last_xid, TaskCall(task_op[t])[1],
                                           TaskCall(task_op[t])[2]))
        /\ CallXid(last_packet) = last_xid
        /\ LastCallOf(t).xid = last_xid

\* a task reads the replies to a DeviceRead CALL that carries xid 1, after
\* another task completed a create_link with xid 0 and asked for the lock again
C36_Witness ==
    \E t \in Tasks, u \in Tasks :
        /\ t # u
        /\ task_pc[t] = "reading"
        /\ task_op[t] = "recv"
        /\ task_pc[u] = "waiting"
        /\ last_xid = 1
        /\ CallXid(last_packet) = 1
        /\ wire_log[1] = WireEvent("call", u, 0)


-----------------------------------------------------------------------------
(* A connect that fails, checked under SpecLink *)

\* the step of the session setup a connect stopped at, by the length of its
\* log: the portmap request (the TCP connect to the portmapper, the GETPORT
\* call or its reply), the TCP connect to the core port, or CreateLink
FailedAt(log) ==
    IF Len(log) <= 3 /\ (Len(log) < 3 \/ log[3].data = <<>>) THEN "portmap"
    ELSE IF Len(log) <= 4 THEN "core_connect"
    ELSE "create_link"

\* C37: a connect of the VXI transport that returns an error, at whichever
\* step, stores no link; a send or a recv on the transport without a link
\* returns Err(Unspecified) and writes no CALL; and a connect on it is not
\* refused: it starts the setup again at the portmapper, and stores a link
\* exactly when it returns Ok.
C37_FailedConnectStaysDisconnected ==
    [][ /\ (link = "None" /\ VxiConnect /\ link_result'.kind = "Err") =>
              /\ link' = "None"
              /\ UNCHANGED <<link_id, max_recv_size>>
              /\ Len(setup_log') \in 1..5
        /\ (link = "None" /\ (LinkWrite \/ LinkRecv)) =>
              /\ link_result'.kind = "Err"
              /\ link_result'.err = "Unspecified"
              /\ link_pc' = "idle"
              /\ dev_calls' = <<>>
              /\ UNCHANGED <<oncVars, link, setup_log>>
        /\ (link = "None" /\ VxiConnect) =>
              /\ setup_log'[1] = SetupEvent("tcp_connect", "portmap", <<>>)
              /\ Len(setup_log') >= 2 =>
                    setup_log'[2] = SetupEvent("call", "portmap", get_port_packet)
              /\ (link_result'.kind = "Ok") <=> (link' = "Some")
              /\ (link' = "Some") <=> (Len(setup_log') = 6) ]_vars

\* a send was refused on a transport whose connect had stopped at CreateLink:
\* the core client holds a stream and the CreateLink call was written, but
\* there is no link
C37_Witness ==
    /\ link = "None"
    /\ stream = "Some"
    /\ Len(setup_log) = 5
    /\ FailedAt(setup_log) = "create_link"
    /\ link_result.op = "write"
    /\ link_result.kind = "Err"
    /\ link_result.err = "Unspecified"
    /\ link_pc = "idle"


-----------------------------------------------------------------------------
(* The end of a write on a link, checked under SpecLink *)

\* C38: a write on a transport that holds a link ends with Ok or with an
\* error value, never with an abort, whatever the payload and the
\* max_recv_size the CreateLink reply gave (0 included); a write of the
\* empty payload returns Ok and sends no CALL.
C38_WriteNeverAborts ==
    (link = "Some" /\ link_call.name = "write") =>
        /\ link_pc # "panicked"
        /\ link_result.kind # "panic"
        /\ (link_pc = "idle" /\ op_data = <<>>) =>
              (link_result.kind = "Ok" /\ dev_calls = <<>>)


-----------------------------------------------------------------------------
(* Commands and their replies on a shared transport, checked under SpecChan *)

\* the place in ch_wire of the last command the task sent
LastSendOf(t) ==
    LET sends == {i \in 1..Len(ch_wire) :
                     ch_wire[i].ev = "send" /\ ch_wire[i].task = t}
    IN  IF sends = {} THEN 0 ELSE CHOOSE i \in sends : \A j \in sends : j <= i

\* C39: on the shared transport the send of :WAV:PRE? or :WAV:DATA? and the
\* reads of its block header and payload are not interleaved with a send or
\* a read of another task, and the block a task has read is the reply to the
\* command it sent.
C39_CommandAndReplyTogether ==
    /\ \A i \in 1..(Len(ch_wire) - 1) :
          (\/ ch_wire[i].ev = "send" /\ ch_wire[i].cmd \in BlockCommands
           \/ ch_wire[i].ev = "read" /\ ch_wire[i].cmd \in BlockCommands
                                     /\ ch_wire[i].part.part = "header"
                                     /\ ch_wire[i].part.of = LastSendOf(ch_wire[i].task))
            => ch_wire[i + 1].task = ch_wire[i].task
    /\ \A t \in Tasks :
          (ch_op[t] \in {"read_preamble", "window"} /\ ch_res[t] = "Ok") =>
              ch_got[t] = << Part("header", LastSendOf(t)),
                             Part("payload", LastSendOf(t)) >>


-----------------------------------------------------------------------------
(* The locks of the VXI path, checked under SpecConcLive *)

\* the peer answers every request: while a CALL is outstanding, a reply
\* with its xid and the last-fragment bit arrives in the end, behind records
\* that all decode (or the request has ended before)
ServerAnswers ==
    (Outstanding # {}) ~> (Outstanding = {} \/ ReplyArrived(inbound, last_xid))

\* the order and the release of the locks: the lock of the stream is taken
\* by the holder of the lock of the client only; a lock is granted only
\* when no task holds it; a task that waits for the lock of the client holds
\* neither lock; and a task outside a link operation holds neither
LockDiscipline ==
    /\ stream_lock' # stream_lock /\ stream_lock' # 0 =>
          (stream_lock = 0 /\ client_lock = stream_lock' /\ client_lock' = client_lock)
    /\ client_lock' # client_lock /\ client_lock' # 0 =>
          (client_lock = 0 /\ stream_lock = 0 /\ task_pc[client_lock'] = "waiting")
    /\ \A t \in Tasks :
          task_pc'[t] \in {"idle", "waiting", "panicked"} =>
              (client_lock' # t /\ stream_lock' # t)
    /\ ConcReadTurn <=> (\E t \in Tasks : TaskReadRecord(t))

\* C40: every link operation takes the lock of the client and then the lock
\* of the stream, takes no lock it holds, and has released both when it
\* returns or aborts; and when the peer answers every request, every
\* operation that waits for the lock of the client obtains it in the end.
C40_NoDeadlock ==
    /\ [][LockDiscipline]_vars
    /\ ServerAnswers =>
          \A t \in Tasks : (task_pc[t] = "waiting") ~> (client_lock = t)

\* a task holds the lock of the client it waited for, after the request of
\* another task ended in an abort on a record too short to decode: the lock
\* was released while the panic unwound
C40_Witness ==
    \E t \in Tasks, u \in Tasks :
        /\ t # u
        /\ task_pc[t] = "locked"
        /\ client_lock = t
        /\ stream_lock = 0
        /\ task_pc[u] = "panicked"
        /\ Len(wire_log) = 2
        /\ wire_log[2] = WireEvent("done", u, 0)

=============================================================================
